---- MODULE Spec2Model ----
(***************************************************************************)
(* Model of the retrieval-and-answer core of the research-paper RAG        *)
(* service:                                                                *)
(*   - services/chunking.py      chunk_sentences / flush_buffer            *)
(*   - services/rag_pipeline.py  extract_citations_from_answer,            *)
(*                               calculate_confidence, rerank_contexts,    *)
(*                               answer                                    *)
(*   - services/ollama_client.py generate_text                             *)
(*   - services/embedding_service.py  get_embeddings and its cache         *)
(*   - api/routes.py             upload_papers, delete_paper, query_papers,*)
(*                               query_papers_stream                       *)
(*                                                                         *)
(* The specifications sharing the module:                                  *)
(*   SpecChunk  one chunk_sentences call, one action per loop iteration    *)
(*   SpecCite   extract_citations_from_answer and calculate_confidence     *)
(*              applied to bounded inputs                                  *)
(*   Spec       one answer() call, one action per pipeline stage           *)
(*   SpecScope  one _guess_candidate_paper_ids call over bounded           *)
(*              registries                                                 *)
(*   SpecRerank one rerank_contexts call over bounded context lists        *)
(*   SpecUpload one upload batch; SpecUploadFair adds the event loop's     *)
(*              weak fairness                                              *)
(*   SpecRequest one upload request from validation on                     *)
(*   SpecDelete DELETE /papers/{paper_id} requests over a small registry   *)
(*   SpecCache  get_embeddings calls against the query-embedding cache     *)
(*   SpecQuery  POST /query: validation, answer(), history, response       *)
(*   SpecStream POST /query/stream: generate_stream beside answer()        *)
(* The variables of the parts a specification does not exercise stay at    *)
(* their idle values.                                                      *)
(***************************************************************************)
EXTENDS Integers, Sequences, FiniteSets, TLC

VARIABLES
    \* ---- chunk_sentences (services/chunking.py)
    sentences,        \* the input list: records [len, page, section]
    max_chars,        \* parameter
    overlap_chars,    \* parameter
    chunks,           \* the output list built so far
    buf,              \* accumulation buffer: positions into sentences
    buf_len,          \* running character count of buf
    chunk_index,      \* next chunk_index to assign
    current_section,  \* section the loop believes the buffer is in
    ck_i,             \* position of the next sentence the loop reads
    ck_pc,            \* "idle" | "loop" | "done"
    \* ---- answer() and its helpers (services/rag_pipeline.py)
    query,            \* the question, a sequence of characters
    top_k,            \* parameter
    paper_ids,        \* parameter: caller-supplied scope (<<>> when absent)
    enable_rerank,    \* ENABLE_CROSS_ENCODER_RERANK == "true"
    pc,               \* position inside answer()
    detected_ids,     \* answer.detected_ids
    merged_ids,       \* answer.merged_ids
    contexts,         \* answer.contexts / the contexts argument
    prompt,           \* assemble_prompt's result
    llm_resp,         \* generate_text's result
    answer_text,      \* answer.answer_text / the answer_text argument
    citations,        \* extract_citations_from_answer's result
    confidence,       \* calculate_confidence's result, in hundredths
    result,           \* what answer() returned
    calls,            \* collaborator calls made so far, in order
    \* ---- direct calls of _guess_candidate_paper_ids and rerank_contexts
    stored_papers,    \* the paper registry rows the detector reads, in order
    db_available,     \* FALSE when the registry session or query raises
    ce_available,     \* FALSE when loading or calling the cross-encoder raises
    out,              \* what the called function returned
    \* ---- upload_papers batch (api/routes.py)
    up_files,         \* number of files in the batch
    up_task,          \* per file: "pending" | "running" | "done"
    up_sem,           \* free slots of the asyncio.Semaphore
    up_results,       \* per file: the record process_one returned
    up_registry,      \* files that have a paper record (save_paper_meta)
    up_index,         \* files whose vectors are in the index (upsert_vectors)
    up_disk,          \* files written to the upload directory
    up_response,      \* the response of the request
    up_batch,         \* the submitted files and the registry before the request
    \* ---- delete_paper (api/routes.py)
    del_registry,     \* ids of the papers that have a registry row
    del_index,        \* ids of the papers that have vector records in the index
    del_response,     \* the response of the last DELETE request
    \* ---- get_embeddings (services/embedding_service.py)
    _embedding_cache, \* the cache dict: <<key, embedding>> pairs in insertion order
    model_calls,      \* number of _model.encode calls made so far
    emb_out,          \* what the last get_embeddings call returned
    \* ---- query_papers (api/routes.py)
    q_history,        \* query history rows written, in order
    q_response,       \* the response of the POST /query request
    \* ---- query_papers_stream.generate_stream (api/routes.py)
    st_index,         \* the hits the vector index holds for the question
    st_db_ok,         \* FALSE when the paper registry is unreachable
    st_ce_ok,         \* FALSE when the cross-encoder raises
    st_gen,           \* the text the language model generates for the prompt
    st_pc,            \* position inside generate_stream
    st_contexts,      \* generate_stream.contexts
    st_full_answer,   \* generate_stream.full_answer
    st_events         \* the server-sent events yielded so far, in order

chunkVars == <<sentences, max_chars, overlap_chars, chunks, buf, buf_len,
               chunk_index, current_section, ck_i, ck_pc>>

ansVars == <<query, top_k, paper_ids, enable_rerank, pc, detected_ids,
             merged_ids, contexts, prompt, llm_resp, answer_text, citations,
             confidence, result, calls>>

fnVars == <<stored_papers, db_available, ce_available, out>>

upVars == <<up_files, up_task, up_sem, up_results, up_registry, up_index,
            up_disk, up_response, up_batch>>

delVars == <<del_registry, del_index, del_response>>

cacheVars == <<_embedding_cache, model_calls, emb_out>>

queryVars == <<q_history, q_response>>

streamVars == <<st_index, st_db_ok, st_ce_ok, st_gen, st_pc, st_contexts,
                st_full_answer, st_events>>

svcVars == <<delVars, cacheVars, queryVars, streamVars>>

vars == <<chunkVars, ansVars, fnVars, upVars, svcVars>>

\* ------------------------------------------------------------------------
\* Generic helpers
\* ------------------------------------------------------------------------

Range(s) == {s[i] : i \in DOMAIN s}

SeqsUpTo(S, n) == UNION {[1..k -> S] : k \in 0..n}

Last(s) == s[Len(s)]

\* Python's None where a string (a sequence of characters) is expected
None == <<"None">>

NoPrompt == [question |-> <<>>, blocks |-> <<>>]
NoResp == [source |-> "none"]
NoResult == [kind |-> "none"]

\* answer() not running
AnsIdle ==
    /\ query = <<>>
    /\ top_k = 0
    /\ paper_ids = <<>>
    /\ enable_rerank = TRUE
    /\ pc = "idle"
    /\ detected_ids = <<>>
    /\ merged_ids = <<>>
    /\ contexts = <<>>
    /\ prompt = NoPrompt
    /\ llm_resp = NoResp
    /\ answer_text = <<>>
    /\ citations = <<>>
    /\ confidence = 0
    /\ result = NoResult
    /\ calls = <<>>

\* no direct helper call in progress
FnIdle ==
    /\ stored_papers = <<>>
    /\ db_available = TRUE
    /\ ce_available = TRUE
    /\ out = <<>>

NoResponse == [status |-> 0]

\* names: filename of each file; pdf: whether its name or content type says
\* PDF; existing: the filenames the paper registry already holds
Batch(names, pdf, existing) == [names |-> names, pdf |-> pdf, existing |-> existing]

NoBatch == Batch(<<>>, <<>>, {})

\* no upload request in progress
UpIdle ==
    /\ up_files = 0
    /\ up_task = <<>>
    /\ up_sem = 0
    /\ up_results = <<>>
    /\ up_registry = {}
    /\ up_index = {}
    /\ up_disk = {}
    /\ up_response = NoResponse
    /\ up_batch = NoBatch

\* no DELETE request, no embedding call, no query route, no stream
DelIdle ==
    /\ del_registry = {}
    /\ del_index = {}
    /\ del_response = NoResponse

CacheIdle ==
    /\ _embedding_cache = <<>>
    /\ model_calls = 0
    /\ emb_out = NoResult

QueryIdle ==
    /\ q_history = <<>>
    /\ q_response = NoResponse

StreamIdle ==
    /\ st_index = {}
    /\ st_db_ok = TRUE
    /\ st_ce_ok = TRUE
    /\ st_gen = <<>>
    /\ st_pc = "idle"
    /\ st_contexts = <<>>
    /\ st_full_answer = <<>>
    /\ st_events = <<>>

SvcIdle == DelIdle /\ CacheIdle /\ QueryIdle /\ StreamIdle

\* ========================================================================
\* Chunker: services/chunking.py
\* ========================================================================

\* Bounds of the chunker inputs.
MaxSents == 3
MaxPage == 2

\* Sentence text lengths tried: short ones that share a chunk and one that is
\* longer than every max_chars tried.
SentLens == {1, 2, 7}
Sections == {"Intro", "Methods"}
\* (max_chars, overlap_chars) settings tried; the code validates neither, so
\* a setting with overlap_chars >= max_chars is a legal call too.
ChunkParams == {<<4, 0>>, <<6, 3>>, <<6, 5>>, <<4, 6>>, <<4, 9>>}

Sentence == [len : SentLens, page : 1..MaxPage, section : Sections]

\* current_section = None
NoSection == "None"

\* s_len = len(s["text"]) + 1
SLen(s) == s.len + 1

\* Number of trailing sentences of b the overlap loop keeps: walk b from the
\* end and stop at the first sentence that would push tail_len over oc.
RECURSIVE KeepCount(_, _, _, _, _)
KeepCount(ss, b, kept, tail_len, oc) ==
    IF kept = Len(b) THEN kept
    ELSE LET s == ss[b[Len(b) - kept]]
         IN IF tail_len + s.len + 1 > oc THEN kept
            ELSE KeepCount(ss, b, kept + 1, tail_len + s.len + 1, oc)

RECURSIVE SumSLen(_, _)
SumSLen(ss, b) ==
    IF b = <<>> THEN 0 ELSE SLen(ss[b[1]]) + SumSLen(ss, Tail(b))

OverlapTailWholeBuffer(ss, b, oc) == b

OverlapTailLastSentence(ss, b, oc) == SubSeq(b, Len(b), Len(b))

\* tail as left by the overlap loop (a suffix of b)
OverlapTail(ss, b, oc) ==
    LET k == KeepCount(ss, b, 0, 0, oc)
    IN SubSeq(b, Len(b) - k + 1, Len(b))

\* The chunk record flush_buffer appends.  text is kept as the list of the
\* joined sentences (positions into the input) and the joined length.
ChunkRecordLastOnly(ss, b, ci) ==
    [ text       |-> <<Last(b)>>,
      text_len   |-> ss[Last(b)].len,
      section    |-> ss[b[1]].section,
      page_start |-> ss[b[1]].page,
      page_end   |-> ss[Last(b)].page,
      chunk_index |-> ci ]

ChunkRecordSwappedPages(ss, b, ci) ==
    [ text       |-> b,
      text_len   |-> SumSLen(ss, b) - 1,
      section    |-> ss[b[1]].section,
      page_start |-> ss[Last(b)].page,
      page_end   |-> ss[b[1]].page,
      chunk_index |-> ci ]

ChunkRecord(ss, b, ci) ==
    [ text       |-> b,
      text_len   |-> SumSLen(ss, b) - 1,
      section    |-> ss[b[1]].section,
      page_start |-> ss[b[1]].page,
      page_end   |-> ss[Last(b)].page,
      chunk_index |-> ci ]

NextChunkIndexStuck(ci) == ci

NextChunkIndex(ci) == ci + 1

\* flush_buffer() on the closure state st = [chunks, buf, buf_len, chunk_index]
FlushBuffer(ss, oc, st) ==
    IF st.buf = <<>> THEN st
    ELSE LET tail == IF oc > 0 THEN OverlapTail(ss, st.buf, oc) ELSE <<>>
         IN [ chunks      |-> Append(st.chunks, ChunkRecord(ss, st.buf, st.chunk_index)),
              chunk_index |-> NextChunkIndex(st.chunk_index),
              buf         |-> tail,
              buf_len     |-> SumSLen(ss, tail) ]

ChunkState == [chunks |-> chunks, buf |-> buf, buf_len |-> buf_len,
               chunk_index |-> chunk_index]

ChunkIdle ==
    /\ sentences = <<>>
    /\ max_chars = 0
    /\ overlap_chars = 0
    /\ chunks = <<>>
    /\ buf = <<>>
    /\ buf_len = 0
    /\ chunk_index = 0
    /\ current_section = NoSection
    /\ ck_i = 1
    /\ ck_pc = "idle"

\* chunk_sentences entered: locals initialised (lines 13-17)
ChunkInit ==
    /\ sentences \in SeqsUpTo(Sentence, MaxSents)
    /\ \E p \in ChunkParams : max_chars = p[1] /\ overlap_chars = p[2]
    /\ chunks = <<>>
    /\ buf = <<>>
    /\ buf_len = 0
    /\ chunk_index = 0
    /\ current_section = NoSection
    /\ ck_i = 1
    /\ ck_pc = "loop"

\* One iteration of `for s in sentences` (lines 52-66)
ChunkStep ==
    /\ ck_pc = "loop"
    /\ ck_i <= Len(sentences)
    /\ LET s    == sentences[ck_i]
           sec  == s.section
           cs0  == IF current_section = NoSection THEN sec ELSE current_section
           sectionFlush == sec # cs0 /\ buf # <<>>
           st1  == IF sectionFlush
                   THEN FlushBuffer(sentences, overlap_chars, ChunkState)
                   ELSE ChunkState
           cs1  == IF sectionFlush THEN sec ELSE cs0
           sizeFlush == st1.buf_len + SLen(s) > max_chars /\ st1.buf # <<>>
           st2  == IF sizeFlush
                   THEN FlushBuffer(sentences, overlap_chars, st1)
                   ELSE st1
       IN /\ chunks' = st2.chunks
          /\ chunk_index' = st2.chunk_index
          /\ buf' = Append(st2.buf, ck_i)
          /\ buf_len' = st2.buf_len + SLen(s)
          /\ current_section' = cs1
    /\ ck_i' = ck_i + 1
    /\ UNCHANGED <<sentences, max_chars, overlap_chars, ck_pc>>
    /\ UNCHANGED <<ansVars, fnVars, upVars, svcVars>>

\* Final flush and return (lines 68-71)
ChunkFinal ==
    /\ ck_pc = "loop"
    /\ ck_i > Len(sentences)
    /\ LET st == FlushBuffer(sentences, overlap_chars, ChunkState)
       IN /\ chunks' = st.chunks
          /\ chunk_index' = st.chunk_index
          /\ buf' = st.buf
          /\ buf_len' = st.buf_len
    /\ ck_pc' = "done"
    /\ UNCHANGED <<sentences, max_chars, overlap_chars, current_section, ck_i>>
    /\ UNCHANGED <<ansVars, fnVars, upVars, svcVars>>

NextChunk == ChunkStep \/ ChunkFinal

InitChunk == ChunkInit /\ AnsIdle /\ FnIdle /\ UpIdle /\ SvcIdle

SpecChunk == InitChunk /\ [][NextChunk]_vars

\* ------------------------------------------------------------------------
\* Chunker properties
\* ------------------------------------------------------------------------

ChunkDone == ck_pc = "done"

SectionsOf(c) == {sentences[i].section : i \in Range(c.text)}

PagesInOrder ==
    \A i \in 1..Len(sentences) - 1 : sentences[i].page <= sentences[i + 1].page

\* The chunk began with sentences carried over from the previous chunk.
StartsWithOverlap(k) ==
    /\ k > 1
    /\ chunks[k].text[1] \in Range(chunks[k - 1].text)

\* C1: every emitted chunk is built from sentences of one single section,
\* for every max_chars / overlap_chars setting.
C1_NoChunkMixesSections ==
    \A k \in 1..Len(chunks) : Cardinality(SectionsOf(chunks[k])) = 1

\* C2: the chunk_index values of the chunks of one call are exactly
\* 0, 1, ..., n-1 in emission order.
C2_ChunkIndexDense ==
    \A k \in 1..Len(chunks) : chunks[k].chunk_index = k - 1

\* C2 witness: a finished call that flushed for a section change, for size
\* and at the end.
C2_Witness ==
    /\ ChunkDone
    /\ Len(chunks) >= 3
    /\ \E k \in 1..Len(chunks) - 1 : chunks[k].section # chunks[k + 1].section
    /\ \E k \in 1..Len(chunks) - 1 : chunks[k].section = chunks[k + 1].section

\* C3: for sentences in document order, page_start is the page of the
\* chunk's first sentence, page_end the page of its last sentence, and
\* page_start <= page_end, also for chunks that begin with an overlap tail.
C3_PageRange ==
    PagesInOrder =>
        \A k \in 1..Len(chunks) :
            /\ chunks[k].page_start = sentences[chunks[k].text[1]].page
            /\ chunks[k].page_end = sentences[Last(chunks[k].text)].page
            /\ chunks[k].page_start <= chunks[k].page_end

\* C3 witness: a chunk seeded by an overlap tail spans two pages.
C3_Witness ==
    /\ ChunkDone
    /\ PagesInOrder
    /\ \E k \in 1..Len(chunks) :
        /\ StartsWithOverlap(k)
        /\ chunks[k].page_start < chunks[k].page_end

IsLong(i) == sentences[i].len > max_chars

\* The first emitted chunk that contains sentence i (0 when none does).
FirstChunkWith(i) ==
    IF \E k \in 1..Len(chunks) : i \in Range(chunks[k].text)
    THEN CHOOSE k \in 1..Len(chunks) :
            /\ i \in Range(chunks[k].text)
            /\ \A j \in 1..k - 1 : i \notin Range(chunks[j].text)
    ELSE 0

\* C4 as stated: a sentence longer than max_chars is emitted as its own
\* chunk: a chunk that contains it contains no other sentence.
C4_LongSentenceAlone ==
    \A i \in 1..Len(sentences) :
        IsLong(i) =>
            \A k \in 1..Len(chunks) :
                i \in Range(chunks[k].text) => chunks[k].text = <<i>>

\* C4 amended: a sentence longer than max_chars is emitted whole; it is the
\* last sentence of the first chunk that holds it, and the sentences before
\* it in that chunk are only the overlap tail of the previous flush (their
\* lengths, each with one joining space, sum to at most overlap_chars), so
\* with overlap_chars = 0 that chunk holds the long sentence alone.
C4_LongSentenceWholeAfterTail ==
    ChunkDone =>
        \A i \in 1..Len(sentences) :
            IsLong(i) =>
                LET k == FirstChunkWith(i)
                IN /\ k > 0
                   /\ LET t == chunks[k].text
                      IN /\ Last(t) = i
                         /\ chunks[k].text_len >= sentences[i].len
                         /\ SumSLen(sentences, SubSeq(t, 1, Len(t) - 1)) <= overlap_chars
                         /\ overlap_chars = 0 => t = <<i>>

\* C4 witness: a long sentence emitted behind a non-empty overlap tail.
C4_Witness ==
    /\ ChunkDone
    /\ \E i \in 1..Len(sentences) :
        /\ IsLong(i)
        /\ Len(chunks[FirstChunkWith(i)].text) > 1
    /\ \E i \in 1..Len(sentences) : IsLong(i) /\ i < Len(sentences)

\* ========================================================================
\* Contexts, prompt, citations and confidence: services/rag_pipeline.py
\* ========================================================================

\* Bounds of the citation/confidence inputs.
MaxCtx == 3
MaxTokens == 3

\* Scores are kept in thousandths (874 is 0.874).  Vector-search scores lie
\* in [0,1]; cross-encoder scores are unbounded logits, negative or above 1.
\* original_score is absent until the re-ranker adds it.
NoScore == -999999

\* A context as retrieve_context builds it (lines 108-117).
Ctx(text, section, ps, pe, pid, title, filename, score) ==
    [ text |-> text, section |-> section, page_start |-> ps, page_end |-> pe,
      paper_id |-> pid, paper_title |-> title, paper_filename |-> filename,
      score |-> score, original_score |-> NoScore ]

\* The contexts tried: two papers with registry metadata, and a hit whose
\* paper is missing from the registry (title "Paper <id>", no filename).
Title1 == <<"A", "t", "t", "e", "n", "t", "i", "o", "n", " ", "I", "s", " ", "A", "l", "l", " ", "Y", "o", "u", " ", "N", "e", "e", "d">>
File1 == <<"a", "t", "t", "e", "n", "t", "i", "o", "n", ".", "p", "d", "f">>
Title2 == <<"B", "l", "o", "c", "k", "c", "h", "a", "i", "n", " ", "S", "u", "r", "v", "e", "y">>
File2 == <<"b", "l", "o", "c", "k", "c", "h", "a", "i", "n", ".", "p", "d", "f">>
\* f"Paper {paper_id}" for a hit whose paper the registry does not hold
Title3 == <<"P", "a", "p", "e", "r", " ", "3">>
TextA == <<"s", "e", "l", "f", " ", "a", "t", "t", "e", "n", "t", "i", "o", "n">>
TextB == <<"c", "o", "n", "s", "e", "n", "s", "u", "s">>
TextC == <<"n", "l", "p", " ", "m", "o", "d", "e", "l", "s">>
TextD == <<"a", "t", "t", "e", "n", "t", "i", "o", "n", " ", "h", "e", "a", "d", "s">>

CtxA == Ctx(TextA, "Introduction", 1, 2, 1, Title1, File1, 874)
CtxB == Ctx(TextB, "Methods", 3, 3, 2, Title2, File2, 2500)
CtxC == Ctx(TextC, "Unknown", 4, 4, 3, Title3, None, -1500)

CtxPool == {CtxA, CtxB, CtxC}

\* Generated text is a sequence of tokens:
\*   [kind |-> "cite", digits |-> ds]  a marker the pattern \(Source\s+(\d+)\)
\*                                    matches (any letter case), ds its \d+ group
\*   [kind |-> "bare"]                text that names a source without matching
\*                                    the pattern ("Source 2", "(Source2)")
\*   [kind |-> "unsure"]              one of the uncertainty phrases
Cite(ds) == [kind |-> "cite", digits |-> ds]
BareTok == [kind |-> "bare", digits |-> <<>>]
UnsureTok == [kind |-> "unsure", digits |-> <<>>]

CiteDigits == {<<0>>, <<1>>, <<2>>, <<0, 3>>}
Tokens == {Cite(ds) : ds \in CiteDigits} \cup {BareTok, UnsureTok}

\* int(match) on the digits of a marker
RECURSIVE DigitsToInt(_)
DigitsToInt(ds) ==
    IF ds = <<>> THEN 0
    ELSE 10 * DigitsToInt(SubSeq(ds, 1, Len(ds) - 1)) + Last(ds)

\* re.findall(pattern, answer_text, re.IGNORECASE): the \d+ groups, in order
RECURSIVE FindAllSources(_)
FindAllSources(text) ==
    IF text = <<>> THEN <<>>
    ELSE IF Last(text).kind = "cite"
         THEN Append(FindAllSources(SubSeq(text, 1, Len(text) - 1)), Last(text).digits)
         ELSE FindAllSources(SubSeq(text, 1, Len(text) - 1))

\* round(x, 2) of a score in thousandths, in hundredths
Round2(x) == (x + 5) \div 10

\* f"{page_start}-{page_end}"
PageString(c) == [from |-> c.page_start, to |-> c.page_end]

CitationOffByOne(ctxs, idx) ==
    LET c == ctxs[IF idx + 2 <= Len(ctxs) THEN idx + 2 ELSE 1]
    IN [ paper_title |-> c.paper_title, paper_filename |-> c.paper_filename,
         paper_id |-> c.paper_id, source_index |-> idx + 1,
         section |-> c.section, page |-> PageString(c),
         relevance_score |-> Round2(c.score) ]

\* The citation built for 0-based index idx (lines 309-319)
Citation(ctxs, idx) ==
    LET c == ctxs[idx + 1]
    IN [ paper_title |-> c.paper_title, paper_filename |-> c.paper_filename,
         paper_id |-> c.paper_id, source_index |-> idx + 1,
         section |-> c.section, page |-> PageString(c),
         relevance_score |-> Round2(c.score) ]

CitableNoSeen(ctxs, seen, idx) == 0 <= idx /\ idx < Len(ctxs)

\* `if 0 <= idx < len(contexts) and idx not in seen` (line 307)
Citable(ctxs, seen, idx) == 0 <= idx /\ idx < Len(ctxs) /\ idx \notin seen

\* The loop over the matches (lines 305-319); st = [citations, seen]
RECURSIVE CiteLoop(_, _, _)
CiteLoop(ctxs, matches, st) ==
    IF matches = <<>> THEN st
    ELSE LET idx == DigitsToInt(Head(matches)) - 1
         IN CiteLoop(ctxs, Tail(matches),
                IF Citable(ctxs, st.seen, idx)
                THEN [ citations |-> Append(st.citations, Citation(ctxs, idx)),
                       seen |-> st.seen \cup {idx} ]
                ELSE st)

extract_citations_from_answer(text, ctxs) ==
    CiteLoop(ctxs, FindAllSources(text), [citations |-> <<>>, seen |-> {}]).citations

\* assemble_prompt: the label "Source i+1" of the context at 0-based position i
SourceLabel(i) == i + 1

assemble_prompt(q, ctxs) ==
    [ question |-> q,
      blocks |-> [j \in 1..Len(ctxs) |->
                    [ source |-> SourceLabel(j - 1),
                      paper_title |-> ctxs[j].paper_title,
                      section |-> ctxs[j].section,
                      pages |-> PageString(ctxs[j]),
                      text |-> ctxs[j].text ]] ]

\* calculate_confidence works in units of 1/18000: with scores in thousandths
\* sum(score_i / (i+1) for the first three) / 3 is (6 s0 + 3 s1 + 2 s2) / 18.
ConfUnit == 18000
CitationBoost == 1800
UncertaintyPenalty == 3600

\* re.search(r'\(Source\s+\d+\)', answer_text, re.IGNORECASE)
HasCitations(text) == \E i \in DOMAIN text : text[i].kind = "cite"

\* any(phrase in answer_text.lower() for phrase in uncertainty_phrases)
HasUncertainty(text) == \E i \in DOMAIN text : text[i].kind = "unsure"

Min(a, b) == IF a <= b THEN a ELSE b
Max(a, b) == IF a >= b THEN a ELSE b

WeightedScore(ctxs) ==
    (IF Len(ctxs) >= 1 THEN 6 * ctxs[1].score ELSE 0)
    + (IF Len(ctxs) >= 2 THEN 3 * ctxs[2].score ELSE 0)
    + (IF Len(ctxs) >= 3 THEN 2 * ctxs[3].score ELSE 0)

ClampNoUpper(x) == Max(0, x)

\* min(1.0, max(0.0, x)) (line 341)
Clamp(x) == Min(ConfUnit, Max(0, x))

\* round(confidence, 2), in hundredths
RoundConf(x) == (2 * x + 180) \div 360

calculate_confidence(ctxs, text) ==
    IF ctxs = <<>> THEN 0
    ELSE RoundConf(Clamp(WeightedScore(ctxs)
                         + (IF HasCitations(text) THEN CitationBoost ELSE 0)
                         - (IF HasUncertainty(text) THEN UncertaintyPenalty ELSE 0)))

\* ---- SpecCite: the three helpers applied to bounded inputs

CiteInit ==
    /\ contexts \in SeqsUpTo(CtxPool, MaxCtx)
    /\ answer_text \in SeqsUpTo(Tokens, MaxTokens)
    /\ pc = "cite_prompt"
    /\ prompt = NoPrompt
    /\ citations = <<>>
    /\ confidence = 0
    /\ query = <<>>
    /\ top_k = 0
    /\ paper_ids = <<>>
    /\ enable_rerank = TRUE
    /\ detected_ids = <<>>
    /\ merged_ids = <<>>
    /\ llm_resp = NoResp
    /\ result = NoResult
    /\ calls = <<>>

CiteOnly == UNCHANGED <<chunkVars, fnVars, upVars, svcVars, query, top_k, paper_ids, enable_rerank,
                        detected_ids, merged_ids, contexts, llm_resp,
                        answer_text, result, calls>>

CiteAssemble ==
    /\ pc = "cite_prompt"
    /\ prompt' = assemble_prompt(query, contexts)
    /\ pc' = "cite_extract"
    /\ UNCHANGED <<citations, confidence>>
    /\ CiteOnly

CiteExtract ==
    /\ pc = "cite_extract"
    /\ citations' = extract_citations_from_answer(answer_text, contexts)
    /\ pc' = "cite_confidence"
    /\ UNCHANGED <<prompt, confidence>>
    /\ CiteOnly

CiteConfidence ==
    /\ pc = "cite_confidence"
    /\ confidence' = calculate_confidence(contexts, answer_text)
    /\ pc' = "cite_done"
    /\ UNCHANGED <<prompt, citations>>
    /\ CiteOnly

NextCite == CiteAssemble \/ CiteExtract \/ CiteConfidence

InitCite == ChunkIdle /\ CiteInit /\ FnIdle /\ UpIdle /\ SvcIdle

SpecCite == InitCite /\ [][NextCite]_vars

\* ------------------------------------------------------------------------
\* Citation and confidence properties
\* ------------------------------------------------------------------------

CiteExtracted == pc \in {"cite_confidence", "cite_done"}

\* The source number of the marker at position i of the generated text.
SourceNo(i) == DigitsToInt(answer_text[i].digits)

IsMarker(i) == answer_text[i].kind = "cite"

InRange(n) == 1 <= n /\ n <= Len(contexts)

\* Whether citation cit carries the metadata of context c.
CitesContext(cit, c) ==
    /\ cit.paper_title = c.paper_title
    /\ cit.paper_filename = c.paper_filename
    /\ cit.paper_id = c.paper_id
    /\ cit.section = c.section
    /\ cit.page = [from |-> c.page_start, to |-> c.page_end]

\* C5: the prompt labels the context at 0-based position i "Source i+1", and
\* a marker (Source N) with 1 <= N <= len(contexts) yields a citation with
\* source_index N whose metadata are those of contexts[N-1].
C5_CitationPositional ==
    CiteExtracted =>
        /\ \A n \in 1..Len(contexts) :
            /\ prompt.blocks[n].source = n
            /\ prompt.blocks[n].paper_title = contexts[n].paper_title
            /\ prompt.blocks[n].text = contexts[n].text
        /\ \A i \in DOMAIN answer_text :
            (IsMarker(i) /\ InRange(SourceNo(i))) =>
                \E j \in DOMAIN citations : citations[j].source_index = SourceNo(i)
        /\ \A j \in DOMAIN citations :
            /\ InRange(citations[j].source_index)
            /\ CitesContext(citations[j], contexts[citations[j].source_index])

\* C5 witness: contexts [A, B, C] and a text whose only marker is (Source 2)
\* give the sole citation of B.
C5_Witness ==
    /\ pc = "cite_done"
    /\ contexts = <<CtxA, CtxB, CtxC>>
    /\ answer_text = <<BareTok, Cite(<<2>>)>>
    /\ Len(citations) = 1
    /\ citations[1].source_index = 2
    /\ citations[1].paper_id = CtxB.paper_id

\* Positions of the first occurrence of each in-range source number.
FirstOccurrences ==
    {i \in DOMAIN answer_text :
        /\ IsMarker(i)
        /\ InRange(SourceNo(i))
        /\ \A j \in 1..i - 1 : IsMarker(j) => SourceNo(j) # SourceNo(i)}

KthFirstOccurrence(k) ==
    CHOOSE i \in FirstOccurrences :
        Cardinality({j \in FirstOccurrences : j < i}) = k - 1

\* C6: exactly one citation per distinct in-range source number, ordered by
\* first occurrence; repeats, N = 0 and N > len(contexts) add nothing.
C6_OneCitationPerSource ==
    CiteExtracted =>
        /\ Len(citations) = Cardinality(FirstOccurrences)
        /\ \A k \in DOMAIN citations :
            citations[k].source_index = SourceNo(KthFirstOccurrence(k))

\* C6 witness: a repeated in-range marker next to an out-of-range one gives
\* one citation.
C6_Witness ==
    /\ pc = "cite_done"
    /\ Len(contexts) = 2
    /\ \E i, j \in DOMAIN answer_text :
        /\ i < j
        /\ IsMarker(i) /\ IsMarker(j)
        /\ SourceNo(i) = SourceNo(j)
        /\ InRange(SourceNo(i))
    /\ \E i \in DOMAIN answer_text : IsMarker(i) /\ ~InRange(SourceNo(i))
    /\ Len(citations) = 1

\* C7: 0.0 <= confidence <= 1.0 for all inputs, and exactly 0.0 for an empty
\* context list (confidence is kept in hundredths).
C7_ConfidenceBounds ==
    pc = "cite_done" =>
        /\ 0 <= confidence
        /\ confidence <= 100
        /\ contexts = <<>> => confidence = 0

\* C7 witness: a cross-encoder score above 1 is clamped to 1.0.
C7_Witness ==
    /\ pc = "cite_done"
    /\ contexts # <<>>
    /\ contexts[1].score > 1000
    /\ HasCitations(answer_text)
    /\ confidence = 100

\* ========================================================================
\* answer(): services/rag_pipeline.py, with generate_text of
\* services/ollama_client.py
\* ========================================================================

\* Bound of the answer() inputs.
MaxTopK == 2

\* ---- strings: a question is a sequence of one-character strings

UpperCase == <<"A", "B", "C", "D", "E", "F", "G", "H", "I", "J", "K", "L", "M", "N", "O", "P", "Q", "R", "S", "T", "U", "V", "W", "X", "Y", "Z">>
LowerCase == <<"a", "b", "c", "d", "e", "f", "g", "h", "i", "j", "k", "l", "m", "n", "o", "p", "q", "r", "s", "t", "u", "v", "w", "x", "y", "z">>
Whitespace == {" ", "\t", "\n", "\r"}

LowerChar(c) ==
    IF \E i \in DOMAIN UpperCase : UpperCase[i] = c
    THEN LowerCase[CHOOSE i \in DOMAIN UpperCase : UpperCase[i] = c]
    ELSE c

\* str.lower()
Lower(s) == [i \in DOMAIN s |-> LowerChar(s[i])]

\* str.strip()
RECURSIVE LStrip(_)
LStrip(s) ==
    IF s # <<>> /\ Head(s) \in Whitespace THEN LStrip(Tail(s)) ELSE s

RECURSIVE RStrip(_)
RStrip(s) ==
    IF s # <<>> /\ Last(s) \in Whitespace THEN RStrip(SubSeq(s, 1, Len(s) - 1)) ELSE s

Strip(s) == RStrip(LStrip(s))

\* str.startswith(prefix)
StartsWith(s, prefix) ==
    Len(prefix) <= Len(s) /\ SubSeq(s, 1, Len(prefix)) = prefix

\* `sub in s`
Contains(s, sub) ==
    \E i \in 0..(Len(s) - Len(sub)) : SubSeq(s, i + 1, i + Len(sub)) = sub

\* non_research_patterns (lines 349-354)
non_research_patterns == {
    <<"h", "i">>,
    <<"h", "e", "l", "l", "o">>,
    <<"h", "e", "y">>,
    <<"h", "o", "w", " ", "a", "r", "e", " ", "y", "o", "u">>,
    <<"w", "h", "a", "t", "'", "s", " ", "u", "p">>,
    <<"w", "h", "a", "t", "s", " ", "u", "p">>,
    <<"g", "o", "o", "d", " ", "m", "o", "r", "n", "i", "n", "g">>,
    <<"g", "o", "o", "d", " ", "a", "f", "t", "e", "r", "n", "o", "o", "n">>,
    <<"g", "o", "o", "d", " ", "e", "v", "e", "n", "i", "n", "g">>,
    <<"t", "h", "a", "n", "k", "s">>,
    <<"t", "h", "a", "n", "k", " ", "y", "o", "u">>,
    <<"b", "y", "e">>,
    <<"g", "o", "o", "d", "b", "y", "e">>,
    <<"w", "h", "o", " ", "a", "r", "e", " ", "y", "o", "u">>,
    <<"w", "h", "a", "t", " ", "a", "r", "e", " ", "y", "o", "u">>,
    <<"y", "o", "u", "r", " ", "n", "a", "m", "e">>}

MinQueryLen == 5

IsNonResearchExactOnly(q_lower) ==
    \/ Len(q_lower) < MinQueryLen
    \/ \E pattern \in non_research_patterns : pattern = q_lower

\* The guard condition (line 357)
IsNonResearch(q_lower) ==
    \/ Len(q_lower) < MinQueryLen
    \/ \E pattern \in non_research_patterns :
        pattern = q_lower \/ StartsWith(q_lower, pattern \o <<" ">>)

\* The questions tried.
Queries == {
    <<>>,
    <<" ", " ", " ">>,
    <<"H", "i">>,
    <<" ", "h", "e", "y", " ">>,
    <<"w", "h", "a", "t">>,
    <<"T", "h", "a", "n", "k", "s">>,
    <<"H", "e", "y", " ", "t", "h", "e", "r", "e">>,
    <<"g", "o", "o", "d", " ", "m", "o", "r", "n", "i", "n", "g", " ", "a", "l", "l">>,
    <<"h", "i", "s", "t", "o", "r", "y", " ", "o", "f", " ", "n", "l", "p">>,
    <<"h", "e", "l", "l", "o", ",", " ", "e", "x", "p", "l", "a", "i", "n", " ", "b", "e", "r", "t">>,
    <<"w", "h", "a", "t", " ", "i", "s", " ", "a", "t", "t", "e", "n", "t", "i", "o", "n">>,
    <<"c", "o", "m", "p", "a", "r", "e", " ", "t", "h", "e", " ", "m", "e", "t", "h", "o", "d", "s">>,
    <<"e", "x", "p", "l", "a", "i", "n", " ", "'", "A", "t", "t", "e", "n", "t", "i", "o", "n", " ", "I", "s", " ", "A", "l", "l", "'">>,
    <<"c", "i", "t", "e", " ", "\"", "B", "l", "o", "c", "k", "c", "h", "a", "i", "n", " ", "S", "u", "r", "v", "e", "y", "\"">>}

\* ---- scope detection: _extract_quoted_titles, _guess_candidate_paper_ids

\* Position of the first q at or after position i of s (0 when there is none)
NextQuote(s, q, i) ==
    IF \E j \in i..Len(s) : s[j] = q
    THEN CHOOSE j \in i..Len(s) : s[j] = q /\ \A k \in i..j - 1 : s[k] # q
    ELSE 0

\* re.findall(r"'([^']+)'|\"([^\"]+)\"", question) scanning from position i,
\* each phrase stripped and kept when non-empty (lines 198-206)
RECURSIVE ExtractQuotedFrom(_, _)
ExtractQuotedFrom(s, i) ==
    IF i > Len(s) THEN <<>>
    ELSE IF s[i] \in {"'", "\""}
         THEN LET j == NextQuote(s, s[i], i + 1)
              IN IF j > i + 1
                 THEN LET phrase == Strip(SubSeq(s, i + 1, j - 1))
                      IN (IF phrase # <<>> THEN <<phrase>> ELSE <<>>)
                         \o ExtractQuotedFrom(s, j + 1)
                 ELSE ExtractQuotedFrom(s, i + 1)
         ELSE ExtractQuotedFrom(s, i + 1)

_extract_quoted_titles(question) == ExtractQuotedFrom(question, 1)

\* keyword clusters (lines 223-227)
transformer_kw ==
    <<<<"a", "t", "t", "e", "n", "t", "i", "o", "n">>,
      <<"t", "r", "a", "n", "s", "f", "o", "r", "m", "e", "r">>,
      <<"t", "r", "a", "n", "s", "f", "o", "r", "m", "e", "r", "s">>,
      <<"s", "e", "l", "f", "-", "a", "t", "t", "e", "n", "t", "i", "o", "n">>,
      <<"b", "e", "r", "t">>,
      <<"g", "p", "t">>>>
vision_kw ==
    <<<<"c", "o", "n", "v", "o", "l", "u", "t", "i", "o", "n">>,
      <<"c", "n", "n">>,
      <<"v", "i", "s", "i", "o", "n">>,
      <<"r", "e", "s", "n", "e", "t">>,
      <<"i", "m", "a", "g", "e">>>>
rl_kw ==
    <<<<"r", "e", "i", "n", "f", "o", "r", "c", "e", "m", "e", "n", "t">>,
      <<"r", "l">>,
      <<"a", "g", "e", "n", "t">>,
      <<"p", "o", "l", "i", "c", "y">>,
      <<"r", "e", "w", "a", "r", "d">>>>
ml_kw ==
    <<<<"n", "e", "u", "r", "a", "l">>,
      <<"n", "e", "t", "w", "o", "r", "k">>,
      <<"m", "a", "c", "h", "i", "n", "e", " ", "l", "e", "a", "r", "n", "i", "n", "g">>,
      <<"d", "e", "e", "p", " ", "l", "e", "a", "r", "n", "i", "n", "g">>>>
blockchain_kw ==
    <<<<"b", "l", "o", "c", "k", "c", "h", "a", "i", "n">>,
      <<"s", "u", "s", "t", "a", "i", "n", "a", "b", "i", "l", "i", "t", "y">>,
      <<"b", "i", "t", "c", "o", "i", "n">>,
      <<"c", "r", "y", "p", "t", "o", "c", "u", "r", "r", "e", "n", "c", "y">>>>

KeywordClusters == <<transformer_kw, vision_kw, rl_kw, ml_kw, blockchain_kw>>

\* detected_keywords (lines 229-239): every cluster one of whose terms occurs
\* in the lower-cased question contributes all its terms
RECURSIVE DetectedFrom(_, _)
DetectedFrom(q_lower, n) ==
    IF n > Len(KeywordClusters) THEN <<>>
    ELSE (IF \E k \in Range(KeywordClusters[n]) : Contains(q_lower, k)
          THEN KeywordClusters[n] ELSE <<>>)
         \o DetectedFrom(q_lower, n + 1)

DetectedKeywords(q_lower) == DetectedFrom(q_lower, 1)

\* f"{p.title or ''} {p.filename or ''}".lower() (line 248)
Searchable(p) ==
    Lower((IF p.title = None THEN <<>> ELSE p.title) \o <<" ">>
          \o (IF p.filename = None THEN <<>> ELSE p.filename))

MinQuotedLen == 5
MinKeywordHits == 2
MinMediumMatches == 2

\* strong match (line 250)
StrongMatch(p, quoted) ==
    \E n \in DOMAIN quoted :
        Len(quoted[n]) > MinQuotedLen /\ Contains(Searchable(p), quoted[n])

\* kw_count (line 256): one per list entry that occurs in searchable
KwCount(p, detected) ==
    Cardinality({n \in DOMAIN detected : Contains(Searchable(p), detected[n])})

MediumMatchOneKeyword(p, detected) ==
    detected # <<>> /\ KwCount(p, detected) >= 1

\* medium match (lines 255-258)
MediumMatch(p, detected) ==
    detected # <<>> /\ KwCount(p, detected) >= MinKeywordHits

\* The loop over the stored papers (lines 247-258): the ids appended
RECURSIVE CandidateIds(_, _, _)
CandidateIds(papers, quoted, detected) ==
    IF papers = <<>> THEN <<>>
    ELSE LET p == Head(papers)
         IN (IF StrongMatch(p, quoted) \/ MediumMatch(p, detected)
             THEN <<p.id>> ELSE <<>>)
            \o CandidateIds(Tail(papers), quoted, detected)

\* "Keep order but unique" (lines 270-276)
RECURSIVE Unique(_)
Unique(ids) ==
    IF ids = <<>> THEN <<>>
    ELSE LET front == Unique(SubSeq(ids, 1, Len(ids) - 1))
         IN IF Last(ids) \in Range(front) THEN front ELSE Append(front, Last(ids))

\* _guess_candidate_paper_ids(question) against the stored papers; db_ok is
\* FALSE when opening the session or the query raises (fail open)
_guess_candidate_paper_ids(question, papers, db_ok) ==
    LET q_lower == Lower(question)
        quoted == [n \in DOMAIN _extract_quoted_titles(question) |->
                        Lower(_extract_quoted_titles(question)[n])]
        detected == DetectedKeywords(q_lower)
        seen == IF db_ok THEN papers ELSE <<>>
        candidate_ids == CandidateIds(seen, quoted, detected)
        strong_match_found == \E n \in DOMAIN seen : StrongMatch(seen[n], quoted)
    IN IF ~strong_match_found /\ Len(candidate_ids) < MinMediumMatches
       THEN <<>>
       ELSE Unique(candidate_ids)

\* ---- retrieve_context (lines 42-137)

\* The paper registry answer() runs against.
Papers == <<[id |-> 1, title |-> Title1, filename |-> File1],
            [id |-> 2, title |-> Title2, filename |-> File2]>>

\* A vector-index hit: score and payload (paper 3 has vectors but no
\* registry record).
Hit(score, text, section, ps, pe, pid) ==
    [ score |-> score,
      payload |-> [text |-> text, section |-> section, page_start |-> ps,
                   page_end |-> pe, paper_id |-> pid] ]

HitA == Hit(874, TextA, "Introduction", 1, 2, 1)
HitB == Hit(412, TextB, "Methods", 3, 3, 2)
HitC == Hit(200, TextC, "Unknown", 4, 4, 3)
HitD == Hit(80, TextD, "Results", 5, 6, 1)

HitPool == {HitA, HitB, HitC, HitD}

\* RETRIEVAL_SCORE_THRESHOLD / RETRIEVAL_SCORE_THRESHOLD_FILTERED defaults
SCORE_THRESHOLD_DEFAULT == 150
SCORE_THRESHOLD_FILTERED == 50
\* RERANK_TEXT_BOOST / RERANK_TITLE_BOOST defaults
TEXT_BOOST == 150
TITLE_BOOST == 300
\* RERANK_RETRIEVAL_MULTIPLIER default
retrieval_multiplier == 2

ScoreThreshold(ids) ==
    IF ids # <<>> THEN SCORE_THRESHOLD_FILTERED ELSE SCORE_THRESHOLD_DEFAULT

\* What qdrant_client.search may return: at most limit hits, best first, each
\* at or above the score threshold and, under a filter, of a listed paper.
SearchResults(limit, ids, threshold) ==
    LET eligible == {h \in HitPool :
                        /\ h.score >= threshold
                        /\ ids # <<>> => h.payload.paper_id \in Range(ids)}
    IN {hs \in SeqsUpTo(eligible, limit) :
            \A i \in 1..Len(hs) - 1 : hs[i].score >= hs[i + 1].score}

\* paper_info_map.get(paper_id) (lines 84-106)
NoPaper == [id |-> 0]

PaperInfo(pid) ==
    IF \E n \in DOMAIN Papers : Papers[n].id = pid
    THEN Papers[CHOOSE n \in DOMAIN Papers : Papers[n].id = pid]
    ELSE NoPaper

DigitChars == <<"0", "1", "2", "3", "4", "5", "6", "7", "8", "9">>

\* f"Paper {paper_id}" for the one-digit ids used here
PaperFallbackTitle(pid) == <<"P", "a", "p", "e", "r", " ", DigitChars[pid + 1]>>

\* The context built for one hit (lines 103-117)
ContextOfHit(h) ==
    LET info == PaperInfo(h.payload.paper_id)
    IN Ctx(h.payload.text, h.payload.section, h.payload.page_start,
           h.payload.page_end, h.payload.paper_id,
           IF info # NoPaper THEN info.title ELSE PaperFallbackTitle(h.payload.paper_id),
           IF info # NoPaper THEN info.filename ELSE None,
           h.score)

\* Stable sort of <<key, item>> pairs by descending key: list.sort(key=...,
\* reverse=True) keeps the input order of equal keys.
InsertDesc(s, p) ==
    LET k == Cardinality({i \in DOMAIN s : s[i][1] >= p[1]})
    IN SubSeq(s, 1, k) \o <<p>> \o SubSeq(s, k + 1, Len(s))

RECURSIVE SortPairsDesc(_)
SortPairsDesc(ps) ==
    IF ps = <<>> THEN <<>>
    ELSE InsertDesc(SortPairsDesc(SubSeq(ps, 1, Len(ps) - 1)), Last(ps))

\* the cue terms of the keyword boost (line 126)
BoostCueTerms ==
    <<<<"a", "t", "t", "e", "n", "t", "i", "o", "n">>,
      <<"t", "r", "a", "n", "s", "f", "o", "r", "m", "e", "r">>,
      <<"t", "r", "a", "n", "s", "f", "o", "r", "m", "e", "r", "s">>,
      <<"n", "l", "p">>,
      <<"n", "e", "u", "r", "a", "l", " ", "n", "e", "t", "w", "o", "r", "k">>>>

BoostTerms(ql) == {n \in DOMAIN BoostCueTerms : Contains(ql, BoostCueTerms[n])}

\* boosted(c) (lines 128-135)
Boosted(c, terms) ==
    c.score
    + TEXT_BOOST * Cardinality({n \in terms : Contains(Lower(c.text), BoostCueTerms[n])})
    + TITLE_BOOST * Cardinality({n \in terms : Contains(Lower(c.paper_title), BoostCueTerms[n])})

\* retrieve_context(query, top_k, paper_ids) given the hits the index returned
retrieve_context(q, hits) ==
    LET ctxs == [i \in DOMAIN hits |-> ContextOfHit(hits[i])]
        terms == BoostTerms(Lower(q))
    IN IF terms # {}
       THEN LET sorted == SortPairsDesc([i \in DOMAIN ctxs |-> <<Boosted(ctxs[i], terms), ctxs[i]>>])
            IN [i \in DOMAIN sorted |-> sorted[i][2]]
       ELSE ctxs

\* ---- rerank_contexts (lines 140-193)

\* cross_encoder.predict for the chunk texts used here: logits, not
\* similarities, so negative or above 1
CrossEncoderScore(text) ==
    CASE text = TextA -> -1500
      [] text = TextB -> 2500
      [] text = TextC -> 874
      [] OTHER -> 412

TakeTopKAll(reranked, k) == reranked

\* `if top_k: reranked = reranked[:top_k]` (lines 185-186); a top_k that is
\* not given (None) is falsy like 0
TakeTopK(reranked, k) ==
    IF k # 0 THEN SubSeq(reranked, 1, Min(k, Len(reranked))) ELSE reranked

\* The path with a working model (lines 163-189): score, sort, copy, truncate
Reranked(ctxs, k) ==
    LET scored == SortPairsDesc([i \in DOMAIN ctxs |->
                        <<CrossEncoderScore(ctxs[i].text), ctxs[i]>>])
        reranked == [i \in DOMAIN scored |->
                        [scored[i][2] EXCEPT !.original_score = scored[i][2].score,
                                             !.score = scored[i][1]]]
    IN TakeTopK(reranked, k)

RerankSwitchIgnored(ctxs, k, enabled, ce_ok) ==
    IF ctxs = <<>> \/ ~ce_ok THEN ctxs ELSE Reranked(ctxs, k)

RerankFailureDropsAll(ctxs, k, enabled, ce_ok) ==
    IF ctxs = <<>> \/ ~enabled THEN ctxs
    ELSE IF ~ce_ok THEN <<>> ELSE Reranked(ctxs, k)

\* rerank_contexts(query, contexts, top_k); enabled is the configuration
\* switch, ce_ok is FALSE when loading or calling the model raises
rerank_contexts(ctxs, k, enabled, ce_ok) ==
    IF ctxs = <<>> THEN ctxs
    ELSE IF ~enabled THEN ctxs
    ELSE IF ~ce_ok THEN ctxs
    ELSE Reranked(ctxs, k)

\* ---- generate_text (services/ollama_client.py, lines 59-89)

\* Texts the model may generate.
GenTexts == {<<Cite(<<1>>)>>, <<Cite(<<2>>), BareTok, Cite(<<2>>), UnsureTok>>}

\* A text key that is absent from a body (dict.get gives None)
NoText == <<[kind |-> "none", digits |-> <<>>]>>

\* The body a backend returned: the keys answer() reads, NoText / None when
\* absent.
Body(response, text, raw, error) ==
    [response |-> response, text |-> text, raw |-> raw, error |-> error]

\* _http_post result: parsed JSON, {"raw": r.text} for a non-JSON body, or
\* NoBody (None) when the request failed.  /api/generate answers {"response": ...}.
NoBody == [failed |-> TRUE]

HttpGenerateBodies ==
    {Body(g, NoText, NoText, None) : g \in GenTexts}
    \cup {Body(NoText, NoText, g, None) : g \in GenTexts} \cup {NoBody}

\* /api/completions answers {"text": ...}
HttpCompletionsBodies == {Body(NoText, g, NoText, None) : g \in GenTexts} \cup {NoBody}

\* _cli_generate result: parsed JSON, {"raw": out}, or {"error": str(e)}
CliError == <<"e", "r", "r">>
CliFailed == Body(NoText, NoText, NoText, CliError)
CliBodies ==
    {Body(g, NoText, NoText, None) : g \in GenTexts}
    \cup {Body(NoText, NoText, g, None) : g \in GenTexts}
    \cup {CliFailed}

\* generate_text given what each attempt would return
generate_text(gen, compl, cli) ==
    IF gen # NoBody THEN [source |-> "http", response |-> gen]
    ELSE IF compl # NoBody THEN [source |-> "http", response |-> compl]
    ELSE [source |-> "cli", response |-> cli]

\* The backend calls generate_text made
GenerateCalls(gen, compl) ==
    <<[fn |-> "http_post:/api/generate", arg |-> 0]>>
    \o (IF gen = NoBody
        THEN <<[fn |-> "http_post:/api/completions", arg |-> 0]>> ELSE <<>>)
    \o (IF gen = NoBody /\ compl = NoBody
        THEN <<[fn |-> "ollama_cli", arg |-> 0]>> ELSE <<>>)

\* Python truthiness of an optional string
Truthy(x) == x # NoText /\ x # <<>>

\* answer_text as answer() reads it out of llm_resp (lines 402-414)
AnswerTextOf(resp) ==
    LET d == resp.response
        raw == IF d.raw = NoText THEN <<>> ELSE d.raw
    IN IF resp.source = "http"
       THEN IF Truthy(d.response) THEN d.response
            ELSE IF Truthy(d.text) THEN d.text
            ELSE raw
       ELSE IF Truthy(d.response) THEN d.response ELSE raw

\* ---- answer (lines 345-432)

HelpTok == [kind |-> "canned_help", digits |-> <<>>]
NoInfoTok == [kind |-> "canned_no_info", digits |-> <<>>]

\* The canned responses (lines 358-363 and 390-395)
GuardResponse ==
    [ kind |-> "answer", answer |-> <<HelpTok>>, citations |-> <<>>,
      sources_used |-> {}, confidence |-> 0 ]

\* An exception that leaves answer()
Raised == [kind |-> "error"]

NoInfoAsError == Raised

NoInfoResponse ==
    [ kind |-> "answer", answer |-> <<NoInfoTok>>, citations |-> <<>>,
      sources_used |-> {}, confidence |-> 0 ]

\* The final result (lines 416-432)
AnswerResult(text, ctxs) ==
    [ kind |-> "answer",
      answer |-> text,
      citations |-> extract_citations_from_answer(text, ctxs),
      sources_used |-> {ctxs[i].paper_filename : i \in DOMAIN ctxs} \ {None, <<>>},
      confidence |-> calculate_confidence(ctxs, text),
      paper_ids_used |-> {ctxs[i].paper_id : i \in DOMAIN ctxs} ]

\* answer() entered
AnsInit ==
    /\ query \in Queries
    /\ top_k \in 1..MaxTopK
    /\ paper_ids \in {<<>>, <<1>>}
    /\ enable_rerank \in BOOLEAN
    /\ pc = "guard"
    /\ detected_ids = <<>>
    /\ merged_ids = <<>>
    /\ contexts = <<>>
    /\ prompt = NoPrompt
    /\ llm_resp = NoResp
    /\ answer_text = <<>>
    /\ citations = <<>>
    /\ confidence = 0
    /\ result = NoResult
    /\ calls = <<>>

\* Guard (lines 348-363)
Guard ==
    /\ pc = "guard"
    /\ IF IsNonResearch(Strip(Lower(query)))
       THEN result' = GuardResponse /\ pc' = "done"
       ELSE result' = result /\ pc' = "scope"
    /\ UNCHANGED <<query, top_k, paper_ids, enable_rerank, detected_ids,
                   merged_ids, contexts, prompt, llm_resp, answer_text,
                   citations, confidence, calls>>
    /\ UNCHANGED <<chunkVars, fnVars, upVars, svcVars>>

\* `paper_ids or detected_ids`, `paper_ids and detected_ids`: an absent list
\* (None) is kept as the empty list, which Python treats alike here
TruthyList(l) == l # <<>>

\* `if not paper_ids:` (line 367): the detector runs only without caller ids
ShouldDetectAlways(ids) == TRUE

ShouldDetect(ids) == ~TruthyList(ids)

\* merged_ids (lines 372-377); list({*a, *b}) holds each id once
MergedIds(ids, det) ==
    IF TruthyList(ids) /\ TruthyList(det)
    THEN Unique(ids \o det)
    ELSE IF TruthyList(ids) THEN ids ELSE det

\* Scope (lines 365-377)
Scope ==
    /\ pc = "scope"
    /\ \E db_ok \in BOOLEAN :
        LET detect == ShouldDetect(paper_ids)
            det == IF detect
                   THEN _guess_candidate_paper_ids(query, Papers, db_ok)
                   ELSE <<>>
        IN /\ detected_ids' = det
           /\ merged_ids' = MergedIds(paper_ids, det)
           /\ calls' = IF detect
                       THEN Append(calls, [fn |-> "_guess_candidate_paper_ids", arg |-> 0])
                       ELSE calls
    /\ pc' = "retrieve"
    /\ UNCHANGED <<query, top_k, paper_ids, enable_rerank, contexts, prompt,
                   llm_resp, answer_text, citations, confidence, result>>
    /\ UNCHANGED <<chunkVars, fnVars, upVars, svcVars>>

\* Retrieve (lines 381-383): embed the question and search the index; an
\* exception of a collaborator leaves answer()
Retrieve ==
    /\ pc = "retrieve"
    /\ LET initial_top_k == top_k * retrieval_multiplier
           ids == IF TruthyList(merged_ids) THEN merged_ids ELSE <<>>
       IN \E ok \in BOOLEAN :
            /\ calls' = calls \o <<[fn |-> "get_embeddings", arg |-> 1],
                                   [fn |-> "qdrant_client.search", arg |-> initial_top_k]>>
            /\ IF ok
               THEN /\ \E hits \in SearchResults(initial_top_k, ids, ScoreThreshold(ids)) :
                        contexts' = retrieve_context(query, hits)
                    /\ pc' = "rerank"
                    /\ result' = result
               ELSE /\ contexts' = contexts
                    /\ pc' = "done"
                    /\ result' = Raised
    /\ UNCHANGED <<query, top_k, paper_ids, enable_rerank, detected_ids,
                   merged_ids, prompt, llm_resp, answer_text, citations,
                   confidence>>
    /\ UNCHANGED <<chunkVars, fnVars, upVars, svcVars>>

\* Rerank and the no-context exit (lines 385-395)
Rerank ==
    /\ pc = "rerank"
    /\ \E ce_ok \in BOOLEAN :
        LET called == contexts # <<>>
            ctxs == IF called
                    THEN rerank_contexts(contexts, top_k, enable_rerank, ce_ok)
                    ELSE contexts
        IN /\ contexts' = ctxs
           /\ calls' = IF called /\ enable_rerank
                       THEN Append(calls, [fn |-> "cross_encoder.predict",
                                           arg |-> IF ce_ok THEN 1 ELSE 0])
                       ELSE calls
           /\ IF ctxs = <<>>
              THEN result' = NoInfoResponse /\ pc' = "done"
              ELSE result' = result /\ pc' = "generate"
    /\ UNCHANGED <<query, top_k, paper_ids, enable_rerank, detected_ids,
                   merged_ids, prompt, llm_resp, answer_text, citations,
                   confidence>>
    /\ UNCHANGED <<chunkVars, fnVars, upVars, svcVars>>

\* Generate (lines 397-414)
Generate ==
    /\ pc = "generate"
    /\ prompt' = assemble_prompt(query, contexts)
    /\ \E gen \in HttpGenerateBodies, compl \in HttpCompletionsBodies, cli \in CliBodies :
        /\ gen # NoBody => (compl = NoBody /\ cli = CliFailed)
        /\ compl # NoBody => cli = CliFailed
        /\ llm_resp' = generate_text(gen, compl, cli)
        /\ calls' = calls \o GenerateCalls(gen, compl)
    /\ answer_text' = AnswerTextOf(llm_resp')
    /\ pc' = "extract"
    /\ UNCHANGED <<query, top_k, paper_ids, enable_rerank, detected_ids,
                   merged_ids, contexts, citations, confidence, result>>
    /\ UNCHANGED <<chunkVars, fnVars, upVars, svcVars>>

\* Extract citations, confidence, return (lines 416-432)
Extract ==
    /\ pc = "extract"
    /\ citations' = extract_citations_from_answer(answer_text, contexts)
    /\ confidence' = calculate_confidence(contexts, answer_text)
    /\ result' = AnswerResult(answer_text, contexts)
    /\ pc' = "done"
    /\ UNCHANGED <<query, top_k, paper_ids, enable_rerank, detected_ids,
                   merged_ids, contexts, prompt, llm_resp, answer_text, calls>>
    /\ UNCHANGED <<chunkVars, fnVars, upVars, svcVars>>

Init == ChunkIdle /\ AnsInit /\ FnIdle /\ UpIdle /\ SvcIdle

Next == Guard \/ Scope \/ Retrieve \/ Rerank \/ Generate \/ Extract

Spec == Init /\ [][Next]_vars

\* ------------------------------------------------------------------------
\* answer() properties
\* ------------------------------------------------------------------------

TrimmedQuestion == Strip(Lower(query))

\* The guard case as the claim words it: q is empty or too short, or equals /
\* begins with a greeting phrase.
ClaimedGuardCase(q) ==
    \/ Len(q) < MinQueryLen
    \/ \E g \in non_research_patterns : q = g \/ StartsWith(q, g)

\* q begins with a greeting phrase followed by a space.
GreetingThenSpace(q) ==
    \E g \in non_research_patterns :
        /\ Len(q) > Len(g)
        /\ SubSeq(q, 1, Len(g)) = g
        /\ q[Len(g) + 1] = " "

AmendedGuardCase(q) ==
    \/ Len(q) < MinQueryLen
    \/ q \in non_research_patterns
    \/ GreetingThenSpace(q)

\* answer() went from the guard straight to its return: the canned help
\* response, and no collaborator was called.
GuardShortCircuits ==
    /\ pc \in {"guard", "done"}
    /\ calls = <<>>
    /\ pc = "done" =>
        /\ result.kind = "answer"
        /\ result.answer = <<HelpTok>>
        /\ result.citations = <<>>
        /\ result.confidence = 0

\* C8 as stated: a trimmed question that is empty, shorter than the minimum,
\* or equals / begins with a greeting phrase gets the canned help response
\* and no scope detection, retrieval, re-ranking or generation call is made.
C8_GuardAsClaimed == ClaimedGuardCase(TrimmedQuestion) => GuardShortCircuits

\* C8 amended: the same for a trimmed question that is empty, shorter than
\* the minimum, equal to a greeting phrase, or that begins with a greeting
\* phrase followed by a space.
C8_GuardShortCircuit == AmendedGuardCase(TrimmedQuestion) => GuardShortCircuits

\* C8 witness: a question of at least the minimum length that begins with a
\* greeting phrase and a space was answered with the canned help response.
C8_Witness ==
    /\ pc = "done"
    /\ result = GuardResponse
    /\ Len(TrimmedQuestion) >= MinQueryLen
    /\ GreetingThenSpace(TrimmedQuestion)

ContextsInUse == pc \in {"generate", "extract", "done"}

\* C9: Retrieve requests top_k x retrieval_multiplier candidates and, whatever
\* the re-ranker's outcome, the context list used for prompt assembly,
\* citation extraction and confidence holds at most top_k contexts.
C9_AtMostTopKContexts ==
    /\ \A n \in DOMAIN calls :
        calls[n].fn = "qdrant_client.search" =>
            calls[n].arg = top_k * retrieval_multiplier
    /\ ContextsInUse => Len(contexts) <= top_k

BackendUnavailable ==
    /\ llm_resp.source = "cli"
    /\ llm_resp.response = CliFailed

\* C10: when both HTTP endpoints and the CLI fallback fail, answer() raises
\* to its caller and returns no AnswerResult.
C10_BackendDownIsHardError ==
    (pc = "done" /\ BackendUnavailable) => result.kind = "error"

IsGenerationCall(c) ==
    c.fn \in {"http_post:/api/generate", "http_post:/api/completions", "ollama_cli"}

\* C11: when retrieval or re-ranking leaves no contexts, answer() returns
\* normally with the canned no-information answer, no citations, no sources
\* and confidence 0, and neither assembles a prompt nor calls generation.
C11_NoContextsIsCannedAnswer ==
    [][(pc = "rerank" /\ contexts' = <<>>) =>
            /\ pc' = "done"
            /\ result'.kind = "answer"
            /\ result'.answer = <<NoInfoTok>>
            /\ result'.citations = <<>>
            /\ result'.sources_used = {}
            /\ result'.confidence = 0
            /\ prompt' = NoPrompt
            /\ llm_resp' = NoResp
            /\ \A n \in DOMAIN calls' : ~IsGenerationCall(calls'[n])]_vars

\* C11 witness: the index was searched, nothing came back, and answer()
\* returned the canned no-information result.
C11_Witness ==
    /\ pc = "done"
    /\ contexts = <<>>
    /\ result.kind = "answer"
    /\ result.answer = <<NoInfoTok>>
    /\ \E n \in DOMAIN calls : calls[n].fn = "qdrant_client.search"

PastScope == pc \in {"retrieve", "rerank", "generate", "extract"}

DetectorCalled == \E n \in DOMAIN calls : calls[n].fn = "_guess_candidate_paper_ids"

\* C15: the scope detector runs only when the caller gave no paper_ids; the
\* scope used by retrieval is the caller's ids when given (never widened or
\* replaced), else the detected ids, else no filter; retrieved contexts stay
\* inside a non-empty scope.
C15_ScopeMerge ==
    PastScope =>
        /\ DetectorCalled <=> paper_ids = <<>>
        /\ paper_ids # <<>> => (merged_ids = paper_ids /\ detected_ids = <<>>)
        /\ paper_ids = <<>> =>
                /\ merged_ids = detected_ids
                /\ detected_ids \in {<<>>, _guess_candidate_paper_ids(query, Papers, TRUE)}
        /\ merged_ids # <<>> =>
                \A i \in DOMAIN contexts : contexts[i].paper_id \in Range(merged_ids)

\* C15 witness: the caller gave paper_ids, the question names another stored
\* paper, and retrieval ran with the caller's ids only.
C15_Witness ==
    /\ pc = "rerank"
    /\ paper_ids = <<1>>
    /\ merged_ids = <<1>>
    /\ contexts # <<>>
    /\ _guess_candidate_paper_ids(query, Papers, TRUE) \notin {<<>>, <<1>>}

\* C15 second witness: no caller ids, the detector's ids became the scope.
C15_WitnessDetected ==
    /\ pc = "rerank"
    /\ paper_ids = <<>>
    /\ merged_ids # <<>>
    /\ contexts # <<>>

\* ========================================================================
\* _guess_candidate_paper_ids called on its own (rag_pipeline.py, 209-276)
\* ========================================================================

\* Bound of the registry size.
MaxPapers == 3

Title5 == <<"V", "i", "s", "i", "o", "n", " ", "T", "r", "a", "n", "s", "f", "o", "r", "m", "e", "r", "s">>
File5 == <<"v", "i", "t", ".", "p", "d", "f">>
File6 == <<"g", "p", "t", "_", "t", "r", "a", "n", "s", "f", "o", "r", "m", "e", "r", ".", "p", "d", "f">>

\* Paper rows: the two of the answer() registry, one whose title holds two
\* transformer keywords, and one without a title.
PaperPool ==
    { [id |-> 1, title |-> Title1, filename |-> File1],
      [id |-> 2, title |-> Title2, filename |-> File2],
      [id |-> 5, title |-> Title5, filename |-> File5],
      [id |-> 6, title |-> None, filename |-> File6] }

\* session.query(Paper).all(): rows with distinct primary keys, in any order
Registries ==
    {r \in SeqsUpTo(PaperPool, MaxPapers) :
        \A i, j \in DOMAIN r : i # j => r[i].id # r[j].id}

ScopeQuestions == {
    <<"w", "h", "a", "t", " ", "i", "s", " ", "a", "t", "t", "e", "n", "t", "i", "o", "n">>,
    <<"w", "h", "a", "t", " ", "a", "b", "o", "u", "t", " ", "b", "l", "o", "c", "k", "c", "h", "a", "i", "n">>,
    <<"c", "o", "m", "p", "a", "r", "e", " ", "\"", "B", "l", "o", "c", "k", "c", "h", "a", "i", "n", " ", "S", "u", "r", "v", "e", "y", "\"", " ", "t", "o", " ", "b", "e", "r", "t">>,
    <<"e", "x", "p", "l", "a", "i", "n", " ", "'", "A", "t", "t", "e", "n", "t", "i", "o", "n", " ", "I", "s", " ", "A", "l", "l", "'">>,
    <<"c", "o", "m", "p", "a", "r", "e", " ", "t", "h", "e", " ", "m", "e", "t", "h", "o", "d", "s">>,
    <<"s", "e", "e", " ", "'", "b", "e", "r", "t", "'">>,
    <<"c", "i", "t", "e", " ", "\"", "B", "l", "o", "c", "k", "c", "h", "a", "i", "n", " ", "S", "u", "r", "v", "e", "y", "\"">>}

\* The other answer() variables while a helper is called on its own
AnsUnused ==
    /\ top_k = 0
    /\ paper_ids = <<>>
    /\ enable_rerank = TRUE
    /\ detected_ids = <<>>
    /\ merged_ids = <<>>
    /\ prompt = NoPrompt
    /\ llm_resp = NoResp
    /\ answer_text = <<>>
    /\ citations = <<>>
    /\ confidence = 0
    /\ result = NoResult
    /\ calls = <<>>

ScopeInit ==
    /\ query \in ScopeQuestions
    /\ stored_papers \in Registries
    /\ db_available \in BOOLEAN
    /\ ce_available = TRUE
    /\ out = <<>>
    /\ contexts = <<>>
    /\ pc = "scope_call"
    /\ AnsUnused

\* One call of _guess_candidate_paper_ids(question)
ScopeCall ==
    /\ pc = "scope_call"
    /\ out' = _guess_candidate_paper_ids(query, stored_papers, db_available)
    /\ pc' = "scope_done"
    /\ UNCHANGED <<query, top_k, paper_ids, enable_rerank, detected_ids,
                   merged_ids, contexts, prompt, llm_resp, answer_text,
                   citations, confidence, result, calls>>
    /\ UNCHANGED <<stored_papers, db_available, ce_available>>
    /\ UNCHANGED <<chunkVars, upVars, svcVars>>

NextScope == ScopeCall

InitScope == ChunkIdle /\ ScopeInit /\ UpIdle /\ SvcIdle

SpecScope == InitScope /\ [][NextScope]_vars

\* ------------------------------------------------------------------------
\* Scope detection properties
\* ------------------------------------------------------------------------

ScopeReturned == pc = "scope_done" /\ db_available

\* A quoted phrase of the question, longer than 5 characters, occurs in the
\* paper's title/filename string.
IsStrongPaper(p) ==
    LET quoted == _extract_quoted_titles(query)
    IN \E n \in DOMAIN quoted :
        Len(quoted[n]) > 5 /\ Contains(Searchable(p), Lower(quoted[n]))

\* The keywords of every cluster one of whose terms occurs in the question.
QuestionKeywords ==
    UNION {Range(KeywordClusters[c]) : c \in
            {c \in DOMAIN KeywordClusters :
                \E k \in Range(KeywordClusters[c]) : Contains(Lower(query), k)}}

\* At least two detected keywords occur in the paper's title/filename string.
IsMediumPaper(p) ==
    Cardinality({k \in QuestionKeywords : Contains(Searchable(p), k)}) >= 2

IdsWhere(keep(_)) ==
    LET kept == SelectSeq(stored_papers, keep)
    IN [n \in DOMAIN kept |-> kept[n].id]

StrongIds == IdsWhere(IsStrongPaper)

IsMediumOnlyPaper(p) == IsMediumPaper(p) /\ ~IsStrongPaper(p)

MediumIds == IdsWhere(IsMediumOnlyPaper)

\* C12: with at least one strong match the result is exactly the
\* strong-matched paper ids in first-seen order, and holds no paper that is
\* only a keyword match.
C12_StrongMatchOnly ==
    (ScopeReturned /\ StrongIds # <<>>) => out = StrongIds

C13_WitnessSingle ==
    /\ ScopeReturned
    /\ StrongIds = <<>>
    /\ Len(MediumIds) = 1
    /\ out = <<>>

\* Some domain keyword occurs both in the question and in the paper's title.
SharesKeyword(p) ==
    \E c \in DOMAIN KeywordClusters : \E k \in Range(KeywordClusters[c]) :
        /\ Contains(Lower(query), k)
        /\ p.title # None
        /\ Contains(Lower(p.title), k)

\* C14: a stored paper whose title holds a domain keyword of the question is
\* in the returned scope, even when it is the only such paper and nothing is
\* quoted.
C14_KeywordPaperInScope ==
    ScopeReturned =>
        \A n \in DOMAIN stored_papers :
            SharesKeyword(stored_papers[n]) => stored_papers[n].id \in Range(out)

\* ========================================================================
\* rerank_contexts called on its own (rag_pipeline.py, 140-193)
\* ========================================================================

RerankQuestion == <<"w", "h", "a", "t", " ", "i", "s", " ", "a", "t", "t", "e", "n", "t", "i", "o", "n">>

\* top_k = 0 stands for a call without top_k
RerankInit ==
    /\ query = RerankQuestion
    /\ contexts \in SeqsUpTo(CtxPool, MaxCtx)
    /\ top_k \in 0..MaxTopK
    /\ enable_rerank \in BOOLEAN
    /\ ce_available \in BOOLEAN
    /\ stored_papers = <<>>
    /\ db_available = TRUE
    /\ out = <<>>
    /\ pc = "rerank_call"
    /\ paper_ids = <<>>
    /\ detected_ids = <<>>
    /\ merged_ids = <<>>
    /\ prompt = NoPrompt
    /\ llm_resp = NoResp
    /\ answer_text = <<>>
    /\ citations = <<>>
    /\ confidence = 0
    /\ result = NoResult
    /\ calls = <<>>

\* One call of rerank_contexts(query, contexts, top_k)
RerankCall ==
    /\ pc = "rerank_call"
    /\ out' = rerank_contexts(contexts, top_k, enable_rerank, ce_available)
    /\ calls' = IF contexts # <<>> /\ enable_rerank
                THEN Append(calls, [fn |-> "cross_encoder.predict",
                                    arg |-> IF ce_available THEN 1 ELSE 0])
                ELSE calls
    /\ pc' = "rerank_done"
    /\ UNCHANGED <<query, top_k, paper_ids, enable_rerank, detected_ids,
                   merged_ids, contexts, prompt, llm_resp, answer_text,
                   citations, confidence, result>>
    /\ UNCHANGED <<stored_papers, db_available, ce_available>>
    /\ UNCHANGED <<chunkVars, upVars, svcVars>>

NextRerank == RerankCall

InitRerank == ChunkIdle /\ RerankInit /\ UpIdle /\ SvcIdle

SpecRerank == InitRerank /\ [][NextRerank]_vars

\* ------------------------------------------------------------------------
\* Re-ranking properties
\* ------------------------------------------------------------------------

RerankReturned == pc = "rerank_done"

CrossEncoderCalled == \E n \in DOMAIN calls : calls[n].fn = "cross_encoder.predict"

\* C16: for an empty list, and with re-ranking disabled, rerank_contexts
\* returns its input unchanged, same elements in the same order, and does not
\* call the cross-encoder.
C16_RerankNoOp ==
    (RerankReturned /\ (contexts = <<>> \/ ~enable_rerank)) =>
        (out = contexts /\ ~CrossEncoderCalled)

\* The list is in descending cross-encoder order already.
InCrossEncoderOrder(ctxs) ==
    \A i \in 1..Len(ctxs) - 1 :
        CrossEncoderScore(ctxs[i].text) >= CrossEncoderScore(ctxs[i + 1].text)

\* C16 witness: re-ranking disabled with a working model, more contexts than
\* top_k in an order the model would change, returned as they came.
C16_Witness ==
    /\ RerankReturned
    /\ ~enable_rerank
    /\ ce_available
    /\ top_k # 0
    /\ Len(contexts) > top_k
    /\ ~InCrossEncoderOrder(contexts)
    /\ out = contexts

\* o is a copy of c with the cross-encoder score as score and c's score as
\* original_score.
IsRescoredCopy(o, c) ==
    o = [c EXCEPT !.score = CrossEncoderScore(c.text), !.original_score = c.score]

ExpectedLen == IF top_k = 0 THEN Len(contexts) ELSE Min(top_k, Len(contexts))

\* C17: with re-ranking enabled and a working model the output is in
\* descending cross-encoder score, each element a re-scored copy of a distinct
\* input context, no dropped context scoring above a kept one, and it has
\* min(top_k, len(contexts)) elements when top_k is given, all otherwise.
C17_RerankSortsAndTruncates ==
    (RerankReturned /\ enable_rerank /\ ce_available /\ contexts # <<>>) =>
        /\ Len(out) = ExpectedLen
        /\ \A i \in 1..Len(out) - 1 : out[i].score >= out[i + 1].score
        /\ \E f \in [DOMAIN out -> DOMAIN contexts] :
            /\ \A i, j \in DOMAIN out : i # j => f[i] # f[j]
            /\ \A i \in DOMAIN out : IsRescoredCopy(out[i], contexts[f[i]])
            /\ \A n \in DOMAIN contexts \ Range(f) : \A i \in DOMAIN out :
                    CrossEncoderScore(contexts[n].text) <= out[i].score

\* C17 witness: three contexts in an order the model changes, cut to top_k.
C17_Witness ==
    /\ RerankReturned
    /\ enable_rerank
    /\ ce_available
    /\ top_k # 0
    /\ Len(contexts) > top_k
    /\ ~InCrossEncoderOrder(contexts)
    /\ Len(out) = top_k
    /\ out[1].original_score # out[1].score

\* C18: when loading or calling the cross-encoder raises, rerank_contexts
\* returns the input contexts unchanged (same order, scores untouched, no
\* original_score added) and raises nothing.
C18_RerankFailureFallsBack ==
    (RerankReturned /\ enable_rerank /\ ~ce_available) =>
        /\ out = contexts
        /\ \A i \in DOMAIN out : out[i].original_score = NoScore

\* C18 witness: the model failed on a list longer than top_k, in an order the
\* model would have changed, and the list came back whole.
C18_Witness ==
    /\ RerankReturned
    /\ enable_rerank
    /\ ~ce_available
    /\ CrossEncoderCalled
    /\ top_k # 0
    /\ Len(contexts) > top_k
    /\ ~InCrossEncoderOrder(contexts)
    /\ out = contexts

\* ========================================================================
\* upload_papers: the batch after validation (api/routes.py, 71-188)
\* ========================================================================

\* Bound of the batch size.
MaxFiles == 4

\* asyncio.Semaphore(3) (line 166)
SemaphoreSlots == 3

\* The steps of process_one that can raise, in order (lines 79-147)
IngestSteps == <<"write", "extract", "chunk", "no_chunks", "embed", "persist",
                 "index", "artifact">>

StepNo(step) == CHOOSE n \in DOMAIN IngestSteps : IngestSteps[n] = step

\* Outcome of one process_one run: the step that raised, or "none"
Outcomes == Range(IngestSteps) \cup {"none"}

\* Whether a run with this outcome got past the given step
Passed(outcome, step) == outcome = "none" \/ StepNo(outcome) > StepNo(step)

NoRecord == [file |-> 0, status |-> "none", error |-> "none"]

ResultRecordAlwaysSuccess(f, outcome) ==
    [file |-> f, status |-> "success", error |-> outcome]

\* The dict process_one returns (lines 150-157 and 164-168)
ResultRecord(f, outcome) ==
    [file |-> f,
     status |-> IF outcome = "none" THEN "success" ELSE "failed",
     error |-> outcome]

CanAcquireAlways(sem) == TRUE

\* asyncio.Semaphore.acquire returns at once only while a slot is free
CanAcquire(sem) == sem > 0

Files == 1..up_files

UploadInit ==
    /\ up_files \in 1..MaxFiles
    /\ up_task = [f \in 1..up_files |-> "pending"]
    /\ up_sem = SemaphoreSlots
    /\ up_results = [f \in 1..up_files |-> NoRecord]
    /\ up_registry = {}
    /\ up_index = {}
    /\ up_disk = {}
    /\ up_response = NoResponse
    /\ up_batch = Batch([f \in 1..up_files |-> f], [f \in 1..up_files |-> TRUE], {})

\* sem_task enters `async with semaphore` and process_one starts, up to its
\* `await file.read()` (lines 168-170, 79-84)
UploadAcquire(f) ==
    /\ up_task[f] = "pending"
    /\ CanAcquire(up_sem)
    /\ up_sem' = up_sem - 1
    /\ up_task' = [up_task EXCEPT ![f] = "running"]
    /\ UNCHANGED <<up_files, up_results, up_registry, up_index, up_disk,
                   up_response, up_batch>>
    /\ UNCHANGED <<chunkVars, ansVars, fnVars, svcVars>>

\* The rest of process_one, which never awaits again: it runs to its return
\* (or to the except branch) and the semaphore is released (lines 84-170)
UploadProcess(f) ==
    /\ up_task[f] = "running"
    /\ \E outcome \in Outcomes :
        /\ up_disk' = IF Passed(outcome, "write") THEN up_disk \cup {f} ELSE up_disk
        /\ up_registry' = IF Passed(outcome, "persist")
                          THEN up_registry \cup {f} ELSE up_registry
        /\ up_index' = IF Passed(outcome, "index") THEN up_index \cup {f} ELSE up_index
        /\ up_results' = [up_results EXCEPT ![f] = ResultRecord(f, outcome)]
    /\ up_sem' = up_sem + 1
    /\ up_task' = [up_task EXCEPT ![f] = "done"]
    /\ UNCHANGED <<up_files, up_response, up_batch>>
    /\ UNCHANGED <<chunkVars, ansVars, fnVars, svcVars>>

CountStatus(results, status) ==
    Cardinality({f \in DOMAIN results : results[f].status = status})

\* asyncio.gather returned: build the response (lines 172-188)
UploadRespond ==
    /\ up_response = NoResponse
    /\ \A f \in Files : up_task[f] = "done"
    /\ up_response' =
        [status |-> 200,
         processed |-> up_results,
         summary |-> [total |-> up_files,
                      successful |-> CountStatus(up_results, "success"),
                      failed |-> CountStatus(up_results, "failed")]]
    /\ UNCHANGED <<up_files, up_task, up_sem, up_results, up_registry,
                   up_index, up_disk, up_batch>>
    /\ UNCHANGED <<chunkVars, ansVars, fnVars, svcVars>>

NextUpload ==
    \/ \E f \in Files : UploadAcquire(f)
    \/ \E f \in Files : UploadProcess(f)
    \/ UploadRespond

InitUpload == ChunkIdle /\ AnsIdle /\ FnIdle /\ UploadInit /\ SvcIdle

SpecUpload == InitUpload /\ [][NextUpload]_vars

\* The event loop keeps running tasks that are ready.
SpecUploadFair == SpecUpload /\ WF_vars(NextUpload)

\* ------------------------------------------------------------------------
\* Upload properties
\* ------------------------------------------------------------------------

InPipeline == {f \in Files : up_task[f] = "running"}

AllProcessed == \A f \in Files : up_task[f] = "done"

\* C19: at most 3 documents are inside process_one at any moment, the slot is
\* released when a document finishes whatever its outcome, and every document
\* of the batch is eventually processed.
C19_BoundedAdmission ==
    /\ [](Cardinality(InPipeline) <= 3)
    /\ [][\A f \in Files :
            (up_task[f] = "running" /\ up_task'[f] = "done") =>
                up_sem' = up_sem + 1]_vars
    /\ <>[]AllProcessed

\* C19 witness: three documents are inside the pipeline, no slot is free and
\* a fourth document of the batch waits for one.
C19_Witness ==
    /\ Cardinality(InPipeline) = 3
    /\ up_sem = 0
    /\ \E f \in Files : up_task[f] = "pending"

ResponseGiven == up_response # NoResponse

\* C20: a document whose run fails at any step yields a record with status
\* 'failed', its siblings still get their own records, and the response
\* holds one record per submitted file with successful + failed = total; the
\* request always ends with that response.
C20_FailureIsolation ==
    /\ [](\A f \in Files :
            up_task[f] = "done" =>
                /\ up_results[f].file = f
                /\ up_results[f].status \in {"success", "failed"}
                /\ up_results[f].status = "failed" <=> up_results[f].error # "none")
    /\ [](ResponseGiven =>
            /\ up_response.status = 200
            /\ DOMAIN up_response.processed = Files
            /\ \A f \in Files : up_response.processed[f] = up_results[f]
            /\ \A f \in Files : up_results[f].status # "none"
            /\ up_response.summary.total = up_files
            /\ up_response.summary.successful + up_response.summary.failed
                    = up_response.summary.total)
    /\ <>ResponseGiven

\* C20 witness: a batch where one document failed at the vector upsert and a
\* sibling admitted after it succeeded, answered with both records.
C20_Witness ==
    /\ ResponseGiven
    /\ up_files >= 2
    /\ \E f, g \in Files :
        /\ up_results[f].status = "failed"
        /\ up_results[f].error = "index"
        /\ up_results[g].status = "success"
    /\ up_response.summary.failed >= 1
    /\ up_response.summary.successful >= 1

\* ========================================================================
\* Further chunk_sentences properties (SpecChunk)
\* ========================================================================

\* A setting the stated validation would refuse.
InvalidChunkParams ==
    max_chars <= 0 \/ overlap_chars <= 0 \/ overlap_chars >= max_chars

\* C25: a call whose max_chars / overlap_chars are not positive integers with
\* overlap_chars < max_chars is rejected and produces no chunk.
C25_ParametersValidated ==
    (ck_pc # "idle" /\ InvalidChunkParams) => (chunks = <<>> /\ ~ChunkDone)

\* The last k entries of b.
Suffix(b, k) == SubSeq(b, Len(b) - k + 1, Len(b))

\* t is the longest suffix of b whose sentences, each counted with one
\* joining space, fit into oc characters.
IsLongestFittingSuffix(t, b, oc) ==
    \E k \in 0..Len(b) :
        /\ t = Suffix(b, k)
        /\ SumSLen(sentences, t) <= oc
        /\ k < Len(b) => SumSLen(sentences, Suffix(b, k + 1)) > oc

\* C26: after every flush the sentences retained as the seed of the next
\* chunk are the longest suffix of the flushed buffer whose combined length
\* is <= overlap_chars; nothing is retained when overlap_chars = 0 or the
\* last sentence alone is longer than overlap_chars.
C26_SeedIsLongestSuffix ==
    [][Len(chunks') > Len(chunks) =>
            LET seed == IF ck_pc' = "done" THEN buf'
                        ELSE SubSeq(buf', 1, Len(buf') - 1)
            IN /\ IsLongestFittingSuffix(seed, buf, overlap_chars)
               /\ overlap_chars = 0 => seed = <<>>
               /\ SLen(sentences[Last(buf)]) > overlap_chars => seed = <<>>]_vars

\* C26 witness: a chunk of two sentences was flushed and only its last
\* sentence was carried into the buffer, ahead of the sentence that follows.
C26_Witness ==
    /\ ck_pc = "loop"
    /\ chunks # <<>>
    /\ Len(Last(chunks).text) >= 2
    /\ Len(buf) = 2
    /\ buf[1] = Last(Last(chunks).text)
    /\ buf[2] = buf[1] + 1

IsContiguousRun(text) ==
    /\ text # <<>>
    /\ \A j \in 1..Len(text) - 1 : text[j + 1] = text[j] + 1

\* C27: every sentence of a non-empty input is in some chunk; every chunk is
\* a non-empty contiguous run of the input sentences in input order joined by
\* single spaces; consecutive chunks share at most a suffix of the earlier
\* one as the prefix of the later one; empty input gives no chunk.
C27_NothingLost ==
    ChunkDone =>
        /\ sentences = <<>> => chunks = <<>>
        /\ \A i \in DOMAIN sentences :
                \E k \in DOMAIN chunks : i \in Range(chunks[k].text)
        /\ \A k \in DOMAIN chunks :
                /\ IsContiguousRun(chunks[k].text)
                /\ chunks[k].text_len = SumSLen(sentences, chunks[k].text) - 1
        /\ \A k \in 1..Len(chunks) - 1 :
                /\ chunks[k + 1].text[1] >= chunks[k].text[1]
                /\ chunks[k + 1].text[1] <= Last(chunks[k].text) + 1
                /\ Last(chunks[k + 1].text) >= Last(chunks[k].text)

\* C27 witness: three sentences came out as two chunks of two sentences that
\* share the middle one.
C27_Witness ==
    /\ ChunkDone
    /\ Len(sentences) = 3
    /\ Len(chunks) = 2
    /\ chunks[1].text = <<1, 2>>
    /\ chunks[2].text = <<2, 3>>

\* ========================================================================
\* upload_papers: the whole request, validation included (routes.py, 37-188)
\* ========================================================================

\* Bound of the batch size for whole requests.
MaxBatch == 2

\* Files whose name does not end in .pdf and whose content type is not
\* application/pdf (lines 45-50)
InvalidFiles(batch) == {f \in DOMAIN batch.pdf : ~batch.pdf[f]}

DuplicateFilesIgnored(batch) == {}

\* Files for which check_paper_exists finds a registry row (lines 59-63)
DuplicateFiles(batch) == {f \in DOMAIN batch.names : batch.names[f] \in batch.existing}

\* HTTPException raised before any processing
Rejected(code) == [status |-> code]

\* The request arrives: any filenames (equal ones included), any mix of PDF
\* and other files, any of the names already registered.
RequestInit ==
    /\ up_files \in 1..MaxBatch
    /\ up_batch \in {Batch(names, pdf, existing) :
                        names \in [1..up_files -> 1..up_files],
                        pdf \in [1..up_files -> BOOLEAN],
                        existing \in SUBSET (1..up_files)}
    /\ up_task = [f \in 1..up_files |-> "received"]
    /\ up_sem = 0
    /\ up_results = [f \in 1..up_files |-> NoRecord]
    /\ up_registry = {}
    /\ up_index = {}
    /\ up_disk = {}
    /\ up_response = NoResponse

\* Validation, duplicate check, ensure_collection and the creation of the
\* semaphore and the tasks (lines 44-76, 165-172)
UploadValidate ==
    /\ up_response = NoResponse
    /\ \A f \in Files : up_task[f] = "received"
    /\ \E collection_ok \in BOOLEAN :
        IF InvalidFiles(up_batch) # {}
        THEN /\ up_response' = Rejected(422)
             /\ UNCHANGED <<up_task, up_sem>>
        ELSE IF DuplicateFiles(up_batch) # {}
        THEN /\ up_response' = Rejected(409)
             /\ UNCHANGED <<up_task, up_sem>>
        ELSE IF ~collection_ok
        THEN /\ up_response' = Rejected(500)
             /\ UNCHANGED <<up_task, up_sem>>
        ELSE /\ up_task' = [f \in Files |-> "pending"]
             /\ up_sem' = SemaphoreSlots
             /\ up_response' = up_response
    /\ UNCHANGED <<up_files, up_results, up_registry, up_index, up_disk, up_batch>>
    /\ UNCHANGED <<chunkVars, ansVars, fnVars, svcVars>>

NextRequest ==
    \/ UploadValidate
    \/ \E f \in Files : UploadAcquire(f)
    \/ \E f \in Files : UploadProcess(f)
    \/ UploadRespond

InitRequest == ChunkIdle /\ AnsIdle /\ FnIdle /\ RequestInit /\ SvcIdle

SpecRequest == InitRequest /\ [][NextRequest]_vars

\* ------------------------------------------------------------------------
\* Upload request properties
\* ------------------------------------------------------------------------

\* Some file of the batch is not a PDF or carries a registered filename.
BatchMustBeRejected ==
    \E f \in Files : ~up_batch.pdf[f] \/ up_batch.names[f] \in up_batch.existing

NoWorkDone ==
    /\ up_disk = {}
    /\ up_registry = {}
    /\ up_index = {}
    /\ \A f \in Files : up_task[f] = "received" /\ up_results[f] = NoRecord

RegistryHasDuplicateFilename ==
    \E f \in up_registry :
        \/ up_batch.names[f] \in up_batch.existing
        \/ \E g \in up_registry : g # f /\ up_batch.names[g] = up_batch.names[f]

\* C28: no two records of the paper registry share a filename, also when one
\* batch holds the same filename twice.
C28_FilenamesUnique == ~RegistryHasDuplicateFilename

\* C29: a document whose record says 'failed' has no paper record in the
\* registry and no vectors in the index.
C29_FailedLeavesNothing ==
    \A f \in Files :
        up_results[f].status = "failed" => (f \notin up_registry /\ f \notin up_index)

\* ========================================================================
\* DELETE /papers/{paper_id}: api/routes.py, delete_paper (lines 545-607)
\* ========================================================================

\* The paper ids a request may name
DeleteIds == 1..MaxPapers

\* The 200 body (lines 593-598); vectors_deleted is the flag set at 584-587
Deleted(pid, vectors_deleted) ==
    [status |-> 200, paper_id |-> pid, vectors_deleted |-> vectors_deleted]

\* HTTPException(404) of line 564, HTTPException(500) of the outer handler
DeleteFailed(code, pid) == [status |-> code, paper_id |-> pid]

\* Registry and index before the first request: every vector record belongs
\* to a registered paper; a paper may have no vectors.
DeleteInit ==
    /\ del_registry \in SUBSET DeleteIds
    /\ del_index \in SUBSET del_registry
    /\ del_response = NoResponse

\* One DELETE request.  qdrant_ok is FALSE when qdrant_client.client.delete
\* raises (caught at line 585), commit_ok is FALSE when session.commit()
\* raises (outer handler).
delete_paper(pid) ==
    \E qdrant_ok, commit_ok \in BOOLEAN :
        IF pid \notin del_registry
        THEN /\ del_response' = DeleteFailed(404, pid)
             /\ UNCHANGED <<del_registry, del_index>>
        ELSE /\ del_index' = IF qdrant_ok THEN del_index \ {pid} ELSE del_index
             /\ IF commit_ok
                THEN /\ del_registry' = del_registry \ {pid}
                     /\ del_response' = Deleted(pid, qdrant_ok)
                ELSE /\ del_registry' = del_registry
                     /\ del_response' = DeleteFailed(500, pid)

DeleteRequest ==
    /\ \E pid \in DeleteIds : delete_paper(pid)
    /\ UNCHANGED <<chunkVars, ansVars, fnVars, upVars, cacheVars, queryVars,
                   streamVars>>

NextDelete == DeleteRequest

InitDelete ==
    ChunkIdle /\ AnsIdle /\ FnIdle /\ UpIdle /\ DeleteInit /\ CacheIdle
    /\ QueryIdle /\ StreamIdle

SpecDelete == InitDelete /\ [][NextDelete]_vars

\* C22: after a deletion that reported success (status 200), the index holds
\* no vector record of the deleted paper, whatever the index delete call did.
C22_VectorsDeletedWithPaper ==
    del_response.status = 200 => del_response.paper_id \notin del_index

\* ========================================================================
\* Query-embedding cache: services/embedding_service.py
\* ========================================================================

\* Capacity of the cache in the model; _cache_max_size is 100 in the source
\* (line 12) and only its role as the capacity matters to get_embeddings.
MaxCacheSize == 2
\* _model.encode calls followed
MaxModelCalls == 4
\* Longest texts argument
MaxBatchTexts == 2

_cache_max_size == MaxCacheSize

\* The texts embedded: one more than the cache can hold
EmbTexts == 1..MaxCacheSize + 1

\* _hash_text: the MD5 hex digest of the text, distinct for distinct texts here
_hash_text(text) == <<"md5", text>>

\* _model.encode of one text
Encode(text) == <<"embedding", text>>

\* The keys of the cache dict, in iteration order
CacheKeys(cache) == [n \in DOMAIN cache |-> cache[n].key]

\* _embedding_cache[cache_key]
CacheGet(cache, key) ==
    cache[CHOOSE n \in DOMAIN cache : cache[n].key = key].embedding

\* _embedding_cache.pop(next(iter(_embedding_cache))) removes the first key
\* of the dict's iteration order, which is insertion order
EvictNewest(cache) == SubSeq(cache, 1, Len(cache) - 1)

EvictOldest(cache) == Tail(cache)

\* hits re-inserted at the end, as a least-recently-used cache would do
CacheAfterHitRefreshed(cache, key) ==
    LET n == CHOOSE k \in DOMAIN cache : cache[k].key = key
    IN SubSeq(cache, 1, n - 1) \o SubSeq(cache, n + 1, Len(cache)) \o <<cache[n]>>

\* a hit leaves the dict untouched (lines 39-40)
CacheAfterHit(cache, key) == cache

\* lines 46-49: evict when full, then insert the new key at the end
CacheAfterMiss(cache, key, embedding) ==
    Append(IF Len(cache) >= _cache_max_size THEN EvictOldest(cache) ELSE cache,
           [key |-> key, embedding |-> embedding])

\* What a call returned, with its arguments
EmbResult(texts, use_cache, value) ==
    [kind |-> "embeddings", texts |-> texts, use_cache |-> use_cache, value |-> value]

EmbRaised(texts, use_cache) ==
    [kind |-> "error", texts |-> texts, use_cache |-> use_cache, value |-> <<>>]

CacheInit ==
    /\ _embedding_cache = <<>>
    /\ model_calls = 0
    /\ emb_out = NoResult

\* get_embeddings(texts, use_cache) (lines 25-54); encode_ok is FALSE when
\* _model.encode raises
get_embeddings(texts, use_cache) ==
    IF use_cache /\ Len(texts) = 1
    THEN LET text == texts[1]
             cache_key == _hash_text(text)
         IN IF cache_key \in Range(CacheKeys(_embedding_cache))
            THEN /\ emb_out' = EmbResult(texts, use_cache,
                                         <<CacheGet(_embedding_cache, cache_key)>>)
                 /\ _embedding_cache' = CacheAfterHit(_embedding_cache, cache_key)
                 /\ model_calls' = model_calls
            ELSE /\ model_calls < MaxModelCalls
                 /\ model_calls' = model_calls + 1
                 /\ \E encode_ok \in BOOLEAN :
                      IF encode_ok
                      THEN /\ _embedding_cache' =
                                CacheAfterMiss(_embedding_cache, cache_key, Encode(text))
                           /\ emb_out' = EmbResult(texts, use_cache, <<Encode(text)>>)
                      ELSE /\ _embedding_cache' = _embedding_cache
                           /\ emb_out' = EmbRaised(texts, use_cache)
    ELSE /\ model_calls < MaxModelCalls
         /\ model_calls' = model_calls + 1
         /\ _embedding_cache' = _embedding_cache
         /\ \E encode_ok \in BOOLEAN :
              emb_out' = IF encode_ok
                         THEN EmbResult(texts, use_cache,
                                        [n \in DOMAIN texts |-> Encode(texts[n])])
                         ELSE EmbRaised(texts, use_cache)

EmbedCall ==
    /\ \E texts \in SeqsUpTo(EmbTexts, MaxBatchTexts), use_cache \in BOOLEAN :
        get_embeddings(texts, use_cache)
    /\ UNCHANGED <<chunkVars, ansVars, fnVars, upVars, delVars, queryVars,
                   streamVars>>

NextCache == EmbedCall

InitCache ==
    ChunkIdle /\ AnsIdle /\ FnIdle /\ UpIdle /\ DelIdle /\ CacheInit
    /\ QueryIdle /\ StreamIdle

SpecCache == InitCache /\ [][NextCache]_vars

\* The call that produced emb_out' went through the cache branch
CachedCall(r) == r.kind # "none" /\ r.use_cache /\ Len(r.texts) = 1

\* ... and found its key in the cache as it was before the call
IsCacheHit(cache, r) ==
    CachedCall(r) /\ _hash_text(r.texts[1]) \in Range(CacheKeys(cache))

QueryResponse(res) ==
    [ status |-> 200,
      answer |-> res.answer,
      citations |-> res.citations,
      sources_used |-> res.sources_used,
      confidence |-> res.confidence ]

\* HTTPException(422) of the validation, HTTPException(500) of the outer handler
QueryFailed(code) == [status |-> code]

\* result.get("paper_ids_used", []) (line 253)
PaperIdsUsed(res) ==
    IF "paper_ids_used" \in DOMAIN res THEN res.paper_ids_used ELSE {}

\* The row save_query_history writes (models/db.py)
HistoryRow(question, res) ==
    [question |-> question, paper_ids |-> PaperIdsUsed(res), confidence |-> res.confidence]

\* a failed history write turned into a failed request
RespondAbortOnHistoryFailure(res, hist_ok) ==
    IF hist_ok THEN QueryResponse(res) ELSE QueryFailed(500)

\* What the route answers once answer() returned res: the except branch of
\* lines 258-259 only prints, the body is built from res alone
RespondAfterHistory(res, hist_ok) == QueryResponse(res)

\* The request parsed (lines 218-231); top_k 0 stands for an out-of-range value
QueryInit ==
    /\ query \in Queries
    /\ top_k \in 0..MaxTopK
    /\ paper_ids \in {<<>>, <<1>>}
    /\ enable_rerank \in BOOLEAN
    /\ pc = "received"
    /\ detected_ids = <<>>
    /\ merged_ids = <<>>
    /\ contexts = <<>>
    /\ prompt = NoPrompt
    /\ llm_resp = NoResp
    /\ answer_text = <<>>
    /\ citations = <<>>
    /\ confidence = 0
    /\ result = NoResult
    /\ calls = <<>>

\* Validation (lines 233-238), then answer() is entered (line 244)
QueryValidate ==
    /\ pc = "received"
    /\ IF Strip(query) = <<>> \/ top_k < 1
       THEN q_response' = QueryFailed(422) /\ pc' = "rejected"
       ELSE q_response' = q_response /\ pc' = "guard"
    /\ UNCHANGED <<query, top_k, paper_ids, enable_rerank, detected_ids,
                   merged_ids, contexts, prompt, llm_resp, answer_text,
                   citations, confidence, result, calls>>
    /\ UNCHANGED <<chunkVars, fnVars, upVars, delVars, cacheVars, q_history,
                   streamVars>>

\* After answer() (lines 246-267): save the history row, then respond.
\* hist_ok is FALSE when save_query_history raises.
QueryRespond ==
    /\ pc = "done"
    /\ q_response = NoResponse
    /\ IF result = Raised
       THEN /\ q_response' = QueryFailed(500)
            /\ q_history' = q_history
       ELSE \E hist_ok \in BOOLEAN :
            /\ q_history' = IF hist_ok
                            THEN Append(q_history, HistoryRow(query, result))
                            ELSE q_history
            /\ q_response' = RespondAfterHistory(result, hist_ok)
    /\ UNCHANGED <<chunkVars, ansVars, fnVars, upVars, delVars, cacheVars,
                   streamVars>>

NextQuery ==
    \/ QueryValidate
    \/ Guard \/ Scope \/ Retrieve \/ Rerank \/ Generate \/ Extract
    \/ QueryRespond

InitQuery == ChunkIdle /\ QueryInit /\ FnIdle /\ UpIdle /\ SvcIdle

SpecQuery == InitQuery /\ [][NextQuery]_vars

\* answer() returned a result and the route has responded
RespondedAfterAnswer == q_response # NoResponse /\ result.kind = "answer"

\* C24: once answer() has returned its result, the request answers 200 with
\* the answer, citations, sources_used and confidence of that result, whether
\* the history row was written or the write failed.
C24_HistoryFailureSwallowed ==
    RespondedAfterAnswer =>
        /\ q_response.status = 200
        /\ q_response.answer = result.answer
        /\ q_response.citations = result.citations
        /\ q_response.sources_used = result.sources_used
        /\ q_response.confidence = result.confidence

\* C24 witness: a generated answer with citations was returned although no
\* history row was written.
C24_Witness ==
    /\ RespondedAfterAnswer
    /\ q_history = <<>>
    /\ result.citations # <<>>
    /\ q_response.citations = result.citations

\* ========================================================================
\* POST /query/stream: api/routes.py, query_papers_stream.generate_stream
\* (lines 329-398), beside answer() (services/rag_pipeline.py, lines 345-432)
\* ========================================================================

\* What qdrant_client.search returns on a given index content: the eligible
\* hits, best first, at most limit of them
RECURSIVE BestFirst(_)
BestFirst(hitset) ==
    IF hitset = {} THEN <<>>
    ELSE LET best == CHOOSE h \in hitset : \A g \in hitset : h.score >= g.score
         IN <<best>> \o BestFirst(hitset \ {best})

SearchIndex(content, limit, ids, threshold) ==
    LET eligible == {h \in content :
                        /\ h.score >= threshold
                        /\ ids # <<>> => h.payload.paper_id \in Range(ids)}
        ranked == BestFirst(eligible)
    IN SubSeq(ranked, 1, IF Len(ranked) < limit THEN Len(ranked) ELSE limit)

\* answer(q, k, ids) when no collaborator raises, on index content `content`
\* and with the language model generating `text`: the steps of the actions
\* Guard, Scope, Retrieve, Rerank, Generate and Extract in sequence
AnswerOf(q, k, ids, rerank_on, content, db_ok, ce_ok, text) ==
    IF IsNonResearch(Strip(Lower(q))) THEN GuardResponse
    ELSE LET det == IF ShouldDetect(ids)
                    THEN _guess_candidate_paper_ids(q, Papers, db_ok)
                    ELSE <<>>
             merged == MergedIds(ids, det)
             found == retrieve_context(q,
                         SearchIndex(content, k * retrieval_multiplier, merged,
                                     ScoreThreshold(merged)))
             ranked == IF found # <<>>
                       THEN rerank_contexts(found, k, rerank_on, ce_ok)
                       ELSE found
         IN IF ranked = <<>> THEN NoInfoResponse ELSE AnswerResult(text, ranked)

\* The server-sent data events (lines 346-348, 358, 368-375, 391, 398)
StreamNoInfoTok == [kind |-> "stream_no_info", digits |-> <<>>]

TokenEvent(content) == [type |-> "token", content |-> content]

EmptyMetadataEvent ==
    [type |-> "metadata", citations |-> <<>>, sources_used |-> {}, confidence |-> 0]

MetadataEvent(text, ctxs) ==
    [ type |-> "metadata",
      citations |-> extract_citations_from_answer(text, ctxs),
      sources_used |-> {ctxs[i].paper_filename : i \in DOMAIN ctxs} \ {None, <<>>},
      confidence |-> calculate_confidence(ctxs, text),
      paper_ids_used |-> {ctxs[i].paper_id : i \in DOMAIN ctxs} ]

DoneEvent == [type |-> "done"]

ErrorEvent == [type |-> "error"]

\* generate_text_stream(prompt, ...): the text-generation model's streaming
\* variant, yielding the fragments of the generated text in order
generate_text_stream(text) == [n \in DOMAIN text |-> <<text[n]>>]

\* The request has passed the validation of lines 318-323 and generate_stream
\* starts; the opening SSE comment of line 332 carries no data event.
StreamInit ==
    /\ query \in {q \in Queries : Strip(q) # <<>>}
    /\ top_k \in 1..MaxTopK
    /\ paper_ids \in {<<>>, <<1>>}
    /\ enable_rerank \in BOOLEAN
    /\ pc = "idle"
    /\ detected_ids = <<>>
    /\ merged_ids = <<>>
    /\ contexts = <<>>
    /\ prompt = NoPrompt
    /\ llm_resp = NoResp
    /\ answer_text = <<>>
    /\ citations = <<>>
    /\ confidence = 0
    /\ result = NoResult
    /\ calls = <<>>
    /\ st_index \in SUBSET HitPool
    /\ st_db_ok \in BOOLEAN
    /\ st_ce_ok \in BOOLEAN
    /\ st_gen \in GenTexts
    /\ st_pc = "retrieve"
    /\ st_contexts = <<>>
    /\ st_full_answer = <<>>
    /\ st_events = <<>>

StreamOnly ==
    UNCHANGED <<chunkVars, ansVars, fnVars, upVars, delVars, cacheVars,
                q_response, st_index, st_db_ok, st_ce_ok, st_gen>>

\* Retrieve, re-rank and the no-context exit (lines 336-349); search_ok is
\* FALSE when embedding the question or searching the index raises, which
\* the handler of lines 394-398 turns into an error event
StreamRetrieve ==
    /\ st_pc = "retrieve"
    /\ \E search_ok \in BOOLEAN :
        IF ~search_ok
        THEN /\ st_events' = Append(st_events, ErrorEvent)
             /\ st_contexts' = st_contexts
             /\ st_pc' = "done"
        ELSE LET initial_top_k == top_k * retrieval_multiplier
                 found == retrieve_context(query,
                             SearchIndex(st_index, initial_top_k, paper_ids,
                                         ScoreThreshold(paper_ids)))
                 ranked == IF found # <<>>
                           THEN rerank_contexts(found, top_k, enable_rerank, st_ce_ok)
                           ELSE found
             IN /\ st_contexts' = ranked
                /\ IF ranked = <<>>
                   THEN /\ st_events' = st_events \o
                             <<TokenEvent(<<StreamNoInfoTok>>), EmptyMetadataEvent,
                               DoneEvent>>
                        /\ st_pc' = "done"
                   ELSE /\ st_events' = st_events
                        /\ st_pc' = "generate"
    /\ UNCHANGED <<st_full_answer, q_history>>
    /\ StreamOnly

\* The token loop (lines 352-359): sent fragments are yielded before the
\* generator fails, if it fails
StreamTokens ==
    /\ st_pc = "generate"
    /\ LET fragments == generate_text_stream(st_gen)
       IN \E sent \in 0..Len(fragments) :
            LET yielded == SubSeq(fragments, 1, sent)
                tokens == [n \in DOMAIN yielded |-> TokenEvent(yielded[n])]
            IN IF sent = Len(fragments)
               THEN /\ st_full_answer' = st_gen
                    /\ st_events' = st_events \o tokens
                    /\ st_pc' = "metadata"
               ELSE /\ st_full_answer' = SubSeq(st_gen, 1, sent)
                    /\ st_events' = (st_events \o tokens) \o <<ErrorEvent>>
                    /\ st_pc' = "done"
    /\ UNCHANGED <<st_contexts, q_history>>
    /\ StreamOnly

\* Citations, sources, confidence and the metadata event (lines 361-376)
StreamMetadata ==
    /\ st_pc = "metadata"
    /\ st_events' = Append(st_events, MetadataEvent(st_full_answer, st_contexts))
    /\ st_pc' = "history"
    /\ UNCHANGED <<st_contexts, st_full_answer, q_history>>
    /\ StreamOnly

\* History and the done event (lines 378-392)
StreamDone ==
    /\ st_pc = "history"
    /\ \E hist_ok \in BOOLEAN :
        q_history' = IF hist_ok
                     THEN Append(q_history,
                                 HistoryRow(query, Last(st_events)))
                     ELSE q_history
    /\ st_events' = Append(st_events, DoneEvent)
    /\ st_pc' = "done"
    /\ UNCHANGED <<st_contexts, st_full_answer>>
    /\ StreamOnly

NextStream == StreamRetrieve \/ StreamTokens \/ StreamMetadata \/ StreamDone

InitStream == ChunkIdle /\ StreamInit /\ FnIdle /\ UpIdle /\ DelIdle /\ CacheIdle
              /\ QueryIdle

SpecStream == InitStream /\ [][NextStream]_vars

\* The stream ran to its done event
StreamCompleted ==
    st_pc = "done" /\ st_events # <<>> /\ Last(st_events).type = "done"

\* Token events, then one metadata event, then the done event
TokensMetadataDone(events) ==
    /\ Len(events) >= 2
    /\ events[Len(events)].type = "done"
    /\ events[Len(events) - 1].type = "metadata"
    /\ \A n \in 1..Len(events) - 2 : events[n].type = "token"

\* What answer() returns for the request, index content and generated text
\* of the stream
AnswerForStream ==
    AnswerOf(query, top_k, paper_ids, enable_rerank, st_index, st_db_ok,
             st_ce_ok, st_gen)

\* C30: a completed stream has emitted token events, then the metadata event,
\* then done, and its metadata event carries the citations, sources_used and
\* confidence that answer() returns for the same question, top_k, paper_ids,
\* index content and generated text.
C30_StreamSameAsAnswer ==
    StreamCompleted =>
        /\ TokensMetadataDone(st_events)
        /\ LET metadata == st_events[Len(st_events) - 1]
               res == AnswerForStream
           IN /\ metadata.citations = res.citations
              /\ metadata.sources_used = res.sources_used
              /\ metadata.confidence = res.confidence

====
